---------------------------- MODULE Spec2Model ----------------------------
(***************************************************************************)
(* Model of the numeric engine of chemengine: src/math_parser.js           *)
(* (tokenize, toRPN, compile and the compiled evaluator) and               *)
(* src/math_solver.js (findRoot, integrate).                               *)
(*                                                                         *)
(* Strings are sequences of one-character strings.  JavaScript numbers    *)
(* are modelled by the records built by Rat, NegZero, NaN, PInf, NInf,     *)
(* the JavaScript value undefined by Undef.  Finite arithmetic is exact    *)
(* rational arithmetic (rounding is not modelled); a finite value the      *)
(* model does not compute (a transcendental result, an operand beyond      *)
(* MaxExact) is kept as the unevaluated term Sym(t).                       *)
(***************************************************************************)
EXTENDS Integers, Sequences, FiniteSets, TLC

(***************************************************************************)
(* Bounds of the model.                                                    *)
(***************************************************************************)
\* finite operands beyond this magnitude are kept unevaluated
MaxExact == 10000
\* integer exponents beyond this magnitude are kept unevaluated
MaxPowExp == 16
\* number of lexemes concatenated into an input expression
MaxChunks == 3
\* number of tokens of a generated grammatical token stream
MaxTok == 6

(***************************************************************************)
(* Characters.                                                             *)
(***************************************************************************)
LowerSeq == << "a", "b", "c", "d", "e", "f", "g", "h", "i", "j", "k", "l", "m",
               "n", "o", "p", "q", "r", "s", "t", "u", "v", "w", "x", "y", "z" >>
UpperSeq == << "A", "B", "C", "D", "E", "F", "G", "H", "I", "J", "K", "L", "M",
               "N", "O", "P", "Q", "R", "S", "T", "U", "V", "W", "X", "Y", "Z" >>
DigitSeq == << "0", "1", "2", "3", "4", "5", "6", "7", "8", "9" >>

Range(s) == { s[j] : j \in DOMAIN s }

Letters == Range(LowerSeq)
Capitals == Range(UpperSeq)
Digits == Range(DigitSeq)

\* /[a-z]/
IsLetter(c) == c \in Letters
\* /\d/ and /[0-9]/
IsDigit(c) == c \in Digits
\* /\s/ (the white-space characters the model's inputs use)
IsSpace(c) == c \in { " ", "\t" }

DigitVal(c) == (CHOOSE j \in DOMAIN DigitSeq : DigitSeq[j] = c) - 1

\* String.prototype.toLowerCase, one character
LowerChar(c) ==
    IF c \in Capitals
    THEN LowerSeq[CHOOSE j \in DOMAIN UpperSeq : UpperSeq[j] = c]
    ELSE c

\* the characters of s joined into one TLA+ string (for names and messages)
RECURSIVE Join(_)
Join(s) == IF s = << >> THEN "" ELSE Head(s) \o Join(Tail(s))

(***************************************************************************)
(* JavaScript numbers.                                                     *)
(***************************************************************************)
RECURSIVE Gcd(_, _)
Gcd(a, b) == IF b = 0 THEN a ELSE Gcd(b, a % b)

IAbs(n) == IF n < 0 THEN -n ELSE n

Sym(t) == [k |-> "sym", n |-> 0, d |-> 1, t |-> t]
NaN == [k |-> "nan", n |-> 0, d |-> 1, t |-> << >>]
PInf == [k |-> "pinf", n |-> 0, d |-> 1, t |-> << >>]
NInf == [k |-> "ninf", n |-> 0, d |-> 1, t |-> << >>]
NegZero == [k |-> "nzero", n |-> 0, d |-> 1, t |-> << >>]
Undef == [k |-> "undef", n |-> 0, d |-> 1, t |-> << >>]
\* a function object (Object.prototype.constructor) and a string built from one
Obj(t) == [k |-> "obj", n |-> 0, d |-> 1, t |-> t]
Str(t) == [k |-> "str", n |-> 0, d |-> 1, t |-> t]

\* the finite number n/d (d > 0) in lowest terms
Rat(n, d) ==
    LET g == Gcd(IAbs(n), d)
    IN  [k |-> "num", n |-> n \div g, d |-> d \div g, t |-> << >>]
Num(n) == Rat(n, 1)

\* the term that stands for a value inside an unevaluated term
TermOf(v) ==
    CASE v.k = "sym" -> v.t
      [] v.k \in { "obj", "str" } -> v.t
      [] v.k = "undef" -> << "undefined" >>
      [] v.k = "num" -> << "#", ToString(v.n), ToString(v.d) >>
      [] v.k = "nzero" -> << "-0" >>
      [] v.k = "pinf" -> << "Infinity" >>
      [] v.k = "ninf" -> << "-Infinity" >>
      [] OTHER -> << "NaN" >>

\* ToNumber: undefined, a function object and its string are NaN in arithmetic
ToNumber(v) == IF v.k \in { "undef", "obj", "str" } THEN NaN ELSE v

IsZero(v) == v.k = "nzero" \/ (v.k = "num" /\ v.n = 0)
IsInf(v) == v.k \in { "pinf", "ninf" }
IsFiniteNum(v) == v.k \in { "num", "nzero" }
\* a value the model computes with: finite and within MaxExact
Small(v) == v.k = "nzero" \/ (v.k = "num" /\ IAbs(v.n) <= MaxExact /\ v.d <= MaxExact)
\* the sign bit: -1 or 1
Sgn(v) == IF v.k \in { "nzero", "ninf" } \/ (v.k = "num" /\ v.n < 0) THEN -1 ELSE 1
SignedZero(s) == IF s < 0 THEN NegZero ELSE Num(0)
SignedInf(s) == IF s < 0 THEN NInf ELSE PInf

\* unary minus
NumNeg(v0) ==
    LET v == ToNumber(v0)
    IN  CASE v.k = "nan" -> NaN
          [] v.k = "sym" -> Sym(<< "neg" >> \o v.t)
          [] v.k = "pinf" -> NInf
          [] v.k = "ninf" -> PInf
          [] v.k = "nzero" -> Num(0)
          [] OTHER -> IF v.n = 0 THEN NegZero ELSE Rat(-v.n, v.d)

\* a + b (string concatenation when an operand is an object or a string)
NumAdd(a0, b0) ==
    LET a == ToNumber(a0)
        b == ToNumber(b0)
    IN  CASE a0.k \in { "obj", "str" } \/ b0.k \in { "obj", "str" } ->
                Str(<< "+" >> \o TermOf(a0) \o TermOf(b0))
          [] a.k = "nan" \/ b.k = "nan" -> NaN
          [] a.k = "sym" \/ b.k = "sym" -> Sym(<< "+" >> \o TermOf(a) \o TermOf(b))
          [] IsInf(a) /\ IsInf(b) -> IF a.k = b.k THEN a ELSE NaN
          [] IsInf(a) -> a
          [] IsInf(b) -> b
          [] IsZero(a) /\ IsZero(b) ->
                IF a.k = "nzero" /\ b.k = "nzero" THEN NegZero ELSE Num(0)
          [] ~Small(a) \/ ~Small(b) -> Sym(<< "+" >> \o TermOf(a) \o TermOf(b))
          [] OTHER -> Rat(a.n * b.d + b.n * a.d, a.d * b.d)

\* a - b
NumSub(a0, b0) ==
    LET a == ToNumber(a0)
        b == ToNumber(b0)
    IN  IF a.k /= "nan" /\ b.k /= "nan"
           /\ (a.k = "sym" \/ b.k = "sym"
               \/ (IsFiniteNum(a) /\ IsFiniteNum(b) /\ (~Small(a) \/ ~Small(b))))
        THEN Sym(<< "-" >> \o TermOf(a) \o TermOf(b))
        ELSE NumAdd(a, NumNeg(b))

\* a * b
NumMul(a0, b0) ==
    LET a == ToNumber(a0)
        b == ToNumber(b0)
        s == Sgn(a) * Sgn(b)
    IN  CASE a.k = "nan" \/ b.k = "nan" -> NaN
          [] a.k = "sym" \/ b.k = "sym" -> Sym(<< "*" >> \o TermOf(a) \o TermOf(b))
          [] (IsInf(a) /\ IsZero(b)) \/ (IsZero(a) /\ IsInf(b)) -> NaN
          [] IsInf(a) \/ IsInf(b) -> SignedInf(s)
          [] IsZero(a) \/ IsZero(b) -> SignedZero(s)
          [] ~Small(a) \/ ~Small(b) -> Sym(<< "*" >> \o TermOf(a) \o TermOf(b))
          [] OTHER -> Rat(a.n * b.n, a.d * b.d)

\* a / b
NumDiv(a0, b0) ==
    LET a == ToNumber(a0)
        b == ToNumber(b0)
        s == Sgn(a) * Sgn(b)
    IN  CASE a.k = "nan" \/ b.k = "nan" -> NaN
          [] a.k = "sym" \/ b.k = "sym" -> Sym(<< "/" >> \o TermOf(a) \o TermOf(b))
          [] (IsInf(a) /\ IsInf(b)) \/ (IsZero(a) /\ IsZero(b)) -> NaN
          [] IsInf(a) \/ IsZero(b) -> SignedInf(s)
          [] IsInf(b) \/ IsZero(a) -> SignedZero(s)
          [] ~Small(a) \/ ~Small(b) -> Sym(<< "/" >> \o TermOf(a) \o TermOf(b))
          [] OTHER -> Rat(s * IAbs(a.n) * b.d, a.d * IAbs(b.n))

\* a multiplied by itself m times, m >= 1
RECURSIVE PowNat(_, _)
PowNat(a, m) == IF m = 1 THEN a ELSE NumMul(PowNat(a, m - 1), a)

\* Math.pow(a, b)
NumPow(a0, b0) ==
    LET a == ToNumber(a0)
        b == ToNumber(b0)
    IN  CASE b.k = "nan" -> NaN
          [] IsZero(b) -> Num(1)
          [] a.k = "nan" -> NaN
          [] a.k = "sym" \/ b.k = "sym" -> Sym(<< "^" >> \o TermOf(a) \o TermOf(b))
          [] b.k = "num" /\ b.d = 1 /\ IAbs(b.n) <= MaxPowExp ->
                IF b.n > 0 THEN PowNat(a, b.n)
                ELSE NumDiv(Num(1), PowNat(a, -b.n))
          [] b.k = "num" /\ b.d /= 1 /\ a.k = "num" /\ a.n < 0 -> NaN
          [] OTHER -> Sym(<< "^" >> \o TermOf(a) \o TermOf(b))

\* Math.abs(a) > 1, for a number that is neither NaN nor unevaluated
AbsAboveOne(a) == IsInf(a) \/ (a.k = "num" /\ IAbs(a.n) > a.d)
IsOne(a) == a.k = "num" /\ a.n = 1 /\ a.d = 1
IsSquare(n) == \E r \in 0..n : r * r = n
Isqrt(n) == CHOOSE r \in 0..n : r * r = n

\* natural logarithm, shared by 'ln' and 'log'
NumLog(name, a) ==
    CASE IsZero(a) -> NInf
      [] Sgn(a) < 0 -> NaN
      [] a.k = "pinf" -> PInf
      [] IsOne(a) -> Num(0)
      [] OTHER -> Sym(<< name >> \o TermOf(a))

\* the switch of evaluate over the function names
ApplyFunc(name, a0) ==
    LET a == ToNumber(a0)
        keep == Sym(<< name >> \o TermOf(a))
    IN  CASE a.k = "nan" -> NaN
          [] a.k = "sym" -> keep
          [] name \in { "sin", "tan" } ->
                IF IsInf(a) THEN NaN ELSE IF IsZero(a) THEN a ELSE keep
          [] name = "cos" ->
                IF IsInf(a) THEN NaN ELSE IF IsZero(a) THEN Num(1) ELSE keep
          [] name = "asin" ->
                IF AbsAboveOne(a) THEN NaN ELSE IF IsZero(a) THEN a ELSE keep
          [] name = "acos" ->
                IF AbsAboveOne(a) THEN NaN ELSE IF IsOne(a) THEN Num(0) ELSE keep
          [] name = "atan" -> IF IsZero(a) THEN a ELSE keep
          [] name = "exp" ->
                IF IsZero(a) THEN Num(1)
                ELSE IF a.k = "ninf" THEN Num(0)
                ELSE IF a.k = "pinf" THEN PInf ELSE keep
          [] name \in { "ln", "log" } -> NumLog("ln", a)
          [] name = "log10" ->
                IF a.k = "num" /\ a.n = 10 /\ a.d = 1 THEN Num(1) ELSE NumLog("log10", a)
          [] name = "sqrt" ->
                IF IsZero(a) THEN a
                ELSE IF Sgn(a) < 0 THEN NaN
                ELSE IF a.k = "pinf" THEN PInf
                ELSE IF Small(a) /\ IsSquare(a.n) /\ IsSquare(a.d)
                     THEN Rat(Isqrt(a.n), Isqrt(a.d)) ELSE keep
          [] name = "abs" ->
                IF IsInf(a) THEN PInf
                ELSE IF IsZero(a) THEN Num(0) ELSE Rat(IAbs(a.n), a.d)
          [] OTHER -> Undef

(***************************************************************************)
(* math_parser.js: tables.                                                 *)
(***************************************************************************)
PRECEDENCE(op) ==
    CASE op \in { "+", "-" } -> 1
      [] op \in { "*", "/" } -> 2
      [] op = "^" -> 3
\* RIGHT_ASSOC with no entry: every operator left-associative
NoRightAssoc(op) == FALSE
RIGHT_ASSOC(op) == op = "^"
FUNCTIONS == { "sin", "cos", "tan", "asin", "acos", "atan", "exp", "ln", "log",
               "log10", "sqrt", "abs" }
\* CONSTANTS[name] !== undefined: the two own properties, and the one
\* all-lower-case alphanumeric name the object literal inherits
ConstantDefined(name) == name \in { "pi", "e", "constructor" }
ConstantValue(name) ==
    CASE name = "pi" -> Sym(<< "pi" >>)
      [] name = "e" -> Sym(<< "e" >>)
      [] OTHER -> Obj(<< "Object" >>)

\* tokens
Tok(type, value) == [type |-> type, value |-> value, num |-> Num(0)]
NumTok(v) == [type |-> "num", value |-> "", num |-> v]
OpChars == { "+", "-", "*", "/", "^", "(", ")" }

(***************************************************************************)
(* tokenize: the normalisation by regular-expression replacement.          *)
(***************************************************************************)
\* expr.replace(/\s+/g, '').toLowerCase()
StripLower(s) ==
    LET keep == SelectSeq(s, LAMBDA c : ~IsSpace(c))
    IN  [j \in DOMAIN keep |-> LowerChar(keep[j])]

\* .replace(/(\d)([a-z\(])/g, '$1*$2')
RECURSIVE ReplaceDigitName(_, _)
ReplaceDigitName(s, i) ==
    IF i > Len(s) THEN << >>
    ELSE IF i < Len(s) /\ IsDigit(s[i]) /\ (IsLetter(s[i + 1]) \/ s[i + 1] = "(")
         THEN << s[i], "*", s[i + 1] >> \o ReplaceDigitName(s, i + 2)
         ELSE << s[i] >> \o ReplaceDigitName(s, i + 1)

\* .replace(/([x\)])(\d)/g, '$1*$2')
RECURSIVE ReplaceVarDigit(_, _)
ReplaceVarDigit(s, i) ==
    IF i > Len(s) THEN << >>
    ELSE IF i < Len(s) /\ s[i] \in { "x", ")" } /\ IsDigit(s[i + 1])
         THEN << s[i], "*", s[i + 1] >> \o ReplaceVarDigit(s, i + 2)
         ELSE << s[i] >> \o ReplaceVarDigit(s, i + 1)

\* .replace(/\)([a-z\(])/g, ')*$1')
RECURSIVE ReplaceCloseName(_, _)
ReplaceCloseName(s, i) ==
    IF i > Len(s) THEN << >>
    ELSE IF i < Len(s) /\ s[i] = ")" /\ (IsLetter(s[i + 1]) \/ s[i + 1] = "(")
         THEN << ")", "*", s[i + 1] >> \o ReplaceCloseName(s, i + 2)
         ELSE << s[i] >> \o ReplaceCloseName(s, i + 1)

\* .replace(/([a-z])\(/g, (match, p1) => FUNCTIONS.has(p1) ? match : p1 + '*(')
\* p1 is the one letter the group ([a-z]) captures
RECURSIVE ReplaceNameOpen(_, _)
ReplaceNameOpen(s, i) ==
    IF i > Len(s) THEN << >>
    ELSE IF i < Len(s) /\ IsLetter(s[i]) /\ s[i + 1] = "("
         THEN (IF s[i] \in FUNCTIONS THEN << s[i], "(" >> ELSE << s[i], "*", "(" >>)
              \o ReplaceNameOpen(s, i + 2)
         ELSE << s[i] >> \o ReplaceNameOpen(s, i + 1)

\* the expression the scanning loop of tokenize reads
Normalize(expr) ==
    ReplaceNameOpen(ReplaceCloseName(ReplaceVarDigit(
        ReplaceDigitName(StripLower(expr), 1), 1), 1), 1)

(***************************************************************************)
(* tokenize: the scanning loop.                                            *)
(***************************************************************************)
\* the index after the run of /[a-z0-9]/ that starts at i
RECURSIVE NameEnd(_, _)
NameEnd(s, i) ==
    IF i <= Len(s) /\ (IsLetter(s[i]) \/ IsDigit(s[i])) THEN NameEnd(s, i + 1) ELSE i

\* the index after the run of /[0-9\.]/ that starts at i
RECURSIVE NumEnd(_, _)
NumEnd(s, i) ==
    IF i <= Len(s) /\ (IsDigit(s[i]) \/ s[i] = ".") THEN NumEnd(s, i + 1) ELSE i

\* the index after the run of digits that starts at i
RECURSIVE DigitsEnd(_, _)
DigitsEnd(s, i) == IF i <= Len(s) /\ IsDigit(s[i]) THEN DigitsEnd(s, i + 1) ELSE i

\* the value of a digit string, or -1 when it exceeds MaxExact
RECURSIVE DigitsVal(_, _)
DigitsVal(s, acc) ==
    IF s = << >> THEN acc
    ELSE IF acc < 0 \/ acc * 10 + DigitVal(Head(s)) > MaxExact THEN -1
         ELSE DigitsVal(Tail(s), acc * 10 + DigitVal(Head(s)))

\* 10^m, or -1 when it exceeds MaxExact
RECURSIVE Pow10(_)
Pow10(m) ==
    IF m = 0 THEN 1
    ELSE LET q == Pow10(m - 1)
         IN  IF q < 0 \/ q * 10 > MaxExact THEN -1 ELSE q * 10

\* parseFloat on a run of digits and dots: the longest prefix
\* digits [ '.' digits ] that holds a digit; NaN when there is none
parseFloat(s) ==
    LET e1 == DigitsEnd(s, 1)
        ip == SubSeq(s, 1, e1 - 1)
        hasDot == e1 <= Len(s) /\ s[e1] = "."
        e2 == IF hasDot THEN DigitsEnd(s, e1 + 1) ELSE e1
        fp == IF hasDot THEN SubSeq(s, e1 + 1, e2 - 1) ELSE << >>
        all == DigitsVal(ip \o fp, 0)
        den == Pow10(Len(fp))
    IN  IF ip = << >> /\ fp = << >> THEN NaN
        ELSE IF all < 0 \/ den < 0 THEN Sym(<< "lit", Join(ip \o << "." >> \o fp) >>)
        ELSE Rat(all, den)

Fail(msg, name) == [ok |-> FALSE, tokens |-> << >>, error |-> msg, name |-> name]

\* the test without '^'
SignContextNoPower(expr, i) == i = 1 \/ expr[i - 1] \in { "+", "(", "/", "*", "-" }

\* i === 0 || '+(/*^-'.includes(expr[i - 1]), for the 1-based index i
SignContext(expr, i) == i = 1 \/ expr[i - 1] \in { "+", "(", "/", "*", "^", "-" }

\* the while loop of tokenize over the normalised expression
RECURSIVE Scan(_, _, _)
Scan(expr, i, tokens) ==
    IF i > Len(expr)
    THEN [ok |-> TRUE, tokens |-> tokens, error |-> "", name |-> ""]
    ELSE LET c == expr[i]
         IN  IF c \in OpChars
             THEN IF c \in { "-", "+" } /\ SignContext(expr, i)
                  THEN Scan(expr, i + 1,
                            Append(tokens, Tok("unary", IF c = "-" THEN "neg" ELSE "pos")))
                  ELSE Scan(expr, i + 1, Append(tokens, Tok("op", c)))
             ELSE IF IsLetter(c)
             THEN LET j == NameEnd(expr, i)
                      name == Join(SubSeq(expr, i, j - 1))
                  IN  IF name \in FUNCTIONS
                      THEN Scan(expr, j, Append(tokens, Tok("func", name)))
                      ELSE IF ConstantDefined(name)
                      THEN Scan(expr, j, Append(tokens, NumTok(ConstantValue(name))))
                      ELSE IF name = "x"
                      THEN Scan(expr, j, Append(tokens, Tok("var", "x")))
                      ELSE Fail("Unknown function or variable: " \o name, name)
             ELSE IF IsDigit(c) \/ c = "."
             THEN LET j == NumEnd(expr, i)
                  IN  Scan(expr, j, Append(tokens, NumTok(parseFloat(SubSeq(expr, i, j - 1)))))
             ELSE Fail("Unexpected character: " \o c, c)

tokenize(expr) == Scan(Normalize(expr), 1, << >>)

(***************************************************************************)
(* toRPN.                                                                  *)
(***************************************************************************)
Top(st) == st[Len(st)]
Pop(st) == SubSeq(st, 1, Len(st) - 1)

\* while (opStack.length && top.value !== '(') out.push(opStack.pop())
RECURSIVE PopToOpen(_, _)
PopToOpen(out, ops) ==
    IF ops /= << >> /\ Top(ops).value /= "("
    THEN PopToOpen(Append(out, Top(ops)), Pop(ops))
    ELSE [out |-> out, ops |-> ops]

\* the loop with a sign that binds looser than '^': it stays on the stack
\* when '^' arrives
RECURSIVE ReduceOpsKeepSign(_, _, _)
ReduceOpsKeepSign(t, out, ops) ==
    IF ops = << >> THEN [out |-> out, ops |-> ops]
    ELSE LET top == Top(ops)
         IN  IF top.type = "unary"
             THEN (IF t.value = "^" THEN [out |-> out, ops |-> ops]
                   ELSE ReduceOpsKeepSign(t, Append(out, top), Pop(ops)))
             ELSE IF top.type /= "op" \/ top.value = "(" THEN [out |-> out, ops |-> ops]
             ELSE IF PRECEDENCE(top.value) > PRECEDENCE(t.value)
                     \/ (PRECEDENCE(top.value) = PRECEDENCE(t.value)
                         /\ ~RIGHT_ASSOC(t.value))
                  THEN ReduceOpsKeepSign(t, Append(out, top), Pop(ops))
                  ELSE [out |-> out, ops |-> ops]

\* the while loop run when the binary operator t arrives
RECURSIVE ReduceOps(_, _, _)
ReduceOps(t, out, ops) ==
    IF ops = << >> THEN [out |-> out, ops |-> ops]
    ELSE LET top == Top(ops)
         IN  IF top.type = "unary" THEN ReduceOps(t, Append(out, top), Pop(ops))
             ELSE IF top.type /= "op" \/ top.value = "(" THEN [out |-> out, ops |-> ops]
             ELSE IF PRECEDENCE(top.value) > PRECEDENCE(t.value)
                     \/ (PRECEDENCE(top.value) = PRECEDENCE(t.value)
                         /\ ~RIGHT_ASSOC(t.value))
                  THEN ReduceOps(t, Append(out, top), Pop(ops))
                  ELSE [out |-> out, ops |-> ops]

MISMATCHED == "Mismatched parentheses"
RpnFail == [ok |-> FALSE, out |-> << >>, error |-> MISMATCHED]

\* the final while loop: flush the operator stack
RECURSIVE Flush(_, _)
Flush(out, ops) ==
    IF ops = << >> THEN [ok |-> TRUE, out |-> out, error |-> ""]
    ELSE IF Top(ops).value \in { "(", ")" } THEN RpnFail
         ELSE Flush(Append(out, Top(ops)), Pop(ops))

\* the for loop over the tokens, from token i on
RECURSIVE RpnLoop(_, _, _, _)
RpnLoop(tokens, i, out, ops) ==
    IF i > Len(tokens) THEN Flush(out, ops)
    ELSE LET t == tokens[i]
         IN  IF t.type \in { "num", "var" }
             THEN RpnLoop(tokens, i + 1, Append(out, t), ops)
             ELSE IF t.type \in { "func", "unary" }
             THEN RpnLoop(tokens, i + 1, out, Append(ops, t))
             ELSE IF t.type = "op" /\ t.value = "("
             THEN RpnLoop(tokens, i + 1, out, Append(ops, t))
             ELSE IF t.type = "op" /\ t.value = ")"
             THEN LET r == PopToOpen(out, ops)
                  IN  IF r.ops = << >> THEN RpnFail
                      ELSE LET rest == Pop(r.ops)
                           IN  IF rest /= << >> /\ Top(rest).type = "func"
                               THEN RpnLoop(tokens, i + 1, Append(r.out, Top(rest)), Pop(rest))
                               ELSE RpnLoop(tokens, i + 1, r.out, rest)
             ELSE IF t.type = "op"
             THEN LET r == ReduceOps(t, out, ops)
                  IN  RpnLoop(tokens, i + 1, r.out, Append(r.ops, t))
             ELSE RpnLoop(tokens, i + 1, out, ops)

toRPN(tokens) == RpnLoop(tokens, 1, << >>, << >>)

\* toRPN one token at a time.  Its locals out and opStack, the index i of the
\* token the for loop is at, and (history) idx, the index in tokens of every
\* token of opStack, and log, for every token of out the step that emitted
\* it (by), the token processed then (at) and its own index in tokens (src)
IdleYard ==
    [pc |-> "loop", i |-> 1, out |-> << >>, ops |-> << >>, idx |-> << >>,
     log |-> << >>, error |-> ""]

\* the log after the step at token i has popped the top m tokens of opStack
\* to the output
Emitted(y, m, by) ==
    y.log \o [q \in 1..m |-> [by |-> by, at |-> y.i, src |-> y.idx[Len(y.idx) - q + 1]]]

\* lines 76-83: ')' has popped to out and ops; the '(' on top is discarded and
\* a function under it is emitted
YardClosed(y, out, ops) ==
    LET log == Emitted(y, Len(out) - Len(y.out), "close")
        rest == Pop(ops)
        ridx == SubSeq(y.idx, 1, Len(rest))
    IN  IF ops = << >>
        THEN [y EXCEPT !.pc = "failed", !.error = MISMATCHED, !.out = out, !.ops = ops,
                       !.idx = << >>, !.log = log]
        ELSE IF rest /= << >> /\ Top(rest).type = "func"
        THEN [y EXCEPT !.i = @ + 1, !.out = Append(out, Top(rest)), !.ops = Pop(rest),
                       !.idx = Pop(ridx),
                       !.log = Append(log, [by |-> "call", at |-> y.i, src |-> Top(ridx)])]
        ELSE [y EXCEPT !.i = @ + 1, !.out = out, !.ops = rest, !.idx = ridx, !.log = log]

\* lines 85-102: the loop for the binary operator t has popped to out and ops;
\* t is pushed
YardReduced(y, t, out, ops) ==
    [y EXCEPT !.i = @ + 1, !.out = out, !.ops = Append(ops, t),
              !.idx = Append(SubSeq(y.idx, 1, Len(ops)), y.i),
              !.log = Emitted(y, Len(out) - Len(y.out), "reduce")]

\* lines 68-104: the body of the for loop for the token t = tokens[i]
YardToken(y, t) ==
    IF t.type \in { "num", "var" }
    THEN [y EXCEPT !.i = @ + 1, !.out = Append(@, t),
                   !.log = Append(@, [by |-> "operand", at |-> y.i, src |-> y.i])]
    ELSE IF t.type \in { "func", "unary" } \/ (t.type = "op" /\ t.value = "(")
    THEN [y EXCEPT !.i = @ + 1, !.ops = Append(@, t), !.idx = Append(@, y.i)]
    ELSE IF t.type = "op" /\ t.value = ")"
    THEN YardClosed(y, PopToOpen(y.out, y.ops).out, PopToOpen(y.out, y.ops).ops)
    ELSE IF t.type = "op"
    THEN YardReduced(y, t, ReduceOps(t, y.out, y.ops).out, ReduceOps(t, y.out, y.ops).ops)
    ELSE [y EXCEPT !.i = @ + 1]

\* lines 105-110: the operator stack is flushed; r is what Flush returns
YardFlushed(y, r) ==
    IF r.ok
    THEN [y EXCEPT !.pc = "done", !.out = r.out, !.ops = << >>, !.idx = << >>,
                   !.log = Emitted(y, Len(y.ops), "flush")]
    ELSE [y EXCEPT !.pc = "failed", !.error = r.error]

(***************************************************************************)
(* compile.evaluate: the stack machine.                                    *)
(***************************************************************************)
\* Array.prototype.pop: undefined from an empty array
PopVal(st) == IF st = << >> THEN Undef ELSE Top(st)
PopRest(st) == IF st = << >> THEN << >> ELSE Pop(st)

\* the stack after a binary operator token
BinaryStep(t, stack) ==
    LET b == PopVal(stack)
        s1 == PopRest(stack)
        a == PopVal(s1)
        s2 == PopRest(s1)
    IN  CASE t.value = "+" -> Append(s2, NumAdd(a, b))
          [] t.value = "-" -> Append(s2, NumSub(a, b))
          [] t.value = "*" -> Append(s2, NumMul(a, b))
          [] t.value = "/" -> Append(s2, NumDiv(a, b))
          [] t.value = "^" -> Append(s2, NumPow(a, b))
          [] OTHER -> s2

\* the stack after one token of the program
EvalStep(t, xValue, stack) ==
    CASE t.type = "num" -> Append(stack, t.num)
      [] t.type = "var" -> Append(stack, xValue)
      [] t.type = "unary" ->
            LET a == PopVal(stack)
            IN  Append(PopRest(stack), IF t.value = "neg" THEN NumNeg(a) ELSE a)
      [] t.type = "op" -> BinaryStep(t, stack)
      [] t.type = "func" -> Append(PopRest(stack), ApplyFunc(t.value, PopVal(stack)))
      [] OTHER -> stack

\* the number of values a token pops
Arity(t) ==
    CASE t.type \in { "unary", "func" } -> 1
      [] t.type = "op" -> 2
      [] OTHER -> 0

\* the for loop of evaluate from token i on; under records a pop from an
\* empty stack
RECURSIVE EvalLoop(_, _, _, _, _)
EvalLoop(rpn, i, xValue, stack, under) ==
    IF i > Len(rpn) THEN [stack |-> stack, under |-> under]
    ELSE EvalLoop(rpn, i + 1, xValue, EvalStep(rpn[i], xValue, stack),
                  under \/ Len(stack) < Arity(rpn[i]))

INVALID == "Invalid expression structure"

\* the stack hoisted out of evaluate: a call starts on what the call before left
SharedStack(prev) == prev

\* const stack = [] (line 134): every call starts on a stack of its own,
\* whatever the stack of the call before (prev) held
InitialStack(prev) == << >>

\* evaluate raising an error when the value is not finite
evaluateFiniteOnly(rpn, xValue, prev) ==
    LET r == EvalLoop(rpn, 1, xValue, InitialStack(prev), FALSE)
    IN  IF Len(r.stack) /= 1 \/ r.stack[1].k \in { "nan", "pinf", "ninf" }
        THEN [thrown |-> TRUE, error |-> INVALID, value |-> Undef,
              under |-> r.under, stack |-> r.stack]
        ELSE [thrown |-> FALSE, error |-> "", value |-> r.stack[1],
              under |-> r.under, stack |-> r.stack]

\* evaluate(xValue) over the program rpn; prev is the stack the call before
\* left behind
evaluate(rpn, xValue, prev) ==
    LET r == EvalLoop(rpn, 1, xValue, InitialStack(prev), FALSE)
    IN  IF Len(r.stack) /= 1
        THEN [thrown |-> TRUE, error |-> INVALID, value |-> Undef,
              under |-> r.under, stack |-> r.stack]
        ELSE [thrown |-> FALSE, error |-> "", value |-> r.stack[1],
              under |-> r.under, stack |-> r.stack]

\* the callers of compiled functions
Callers == { 1, 2 }

\* one stack for every call, whoever makes it
OneStack(c) == 1

\* const stack = [] (line 134) is a local of evaluate: the stack the call
\* of caller c works on is that call's own
OwnStack(c) == c

\* a call of a compiled function in progress: the program the closure holds,
\* the argument, the index of the next token, and what the call returned
IdleEval ==
    [pc |-> "idle", prog |-> << >>, x |-> Undef, i |-> 0,
     res |-> [thrown |-> FALSE, error |-> "", value |-> Undef]]
InitEval ==
    [call |-> [c \in Callers |-> IdleEval], stacks |-> [c \in Callers |-> << >>],
     mixed |-> FALSE]

(***************************************************************************)
(* compile: the checks made before tokenizing.                             *)
(***************************************************************************)
\* String.prototype.trim
RECURSIVE TrimLeft(_)
TrimLeft(s) == IF s /= << >> /\ IsSpace(Head(s)) THEN TrimLeft(Tail(s)) ELSE s
RECURSIVE TrimRight(_)
TrimRight(s) == IF s /= << >> /\ IsSpace(Top(s)) THEN TrimRight(Pop(s)) ELSE s
Trim(s) == TrimRight(TrimLeft(s))

\* String.prototype.includes, for one character
Includes(s, c) == \E j \in DOMAIN s : s[j] = c

\* String.prototype.split, for a one-character separator
RECURSIVE Split(_, _, _)
Split(s, c, cur) ==
    IF s = << >> THEN << cur >>
    ELSE IF Head(s) = c THEN << cur >> \o Split(Tail(s), c, << >>)
         ELSE Split(Tail(s), c, Append(cur, Head(s)))

EMPTY == "Empty expression"
MULTIPLE == "Multiple '=' signs found"

\* FullExpr without the parentheses around the right-hand side
FullExprBareRhs(lhs, rhs) == << "(" >> \o lhs \o << ")", " ", "-", " " >> \o rhs

\* `(${lhs}) - (${rhs})`
FullExpr(lhs, rhs) ==
    << "(" >> \o lhs \o << ")", " ", "-", " ", "(" >> \o rhs \o << ")" >>

\* Prepare without the test of parts.length
PrepareNoCount(exprStr) ==
    IF Trim(exprStr) = << >> THEN [ok |-> FALSE, error |-> EMPTY, full |-> << >>]
    ELSE IF Includes(exprStr, "=")
    THEN LET parts == Split(exprStr, "=", << >>)
         IN  [ok |-> TRUE, error |-> "", full |-> FullExpr(parts[1], parts[2])]
    ELSE [ok |-> TRUE, error |-> "", full |-> FullExpr(exprStr, << "0" >>)]

\* compile, lines 118-129: the error raised, or the expression to tokenize
Prepare(exprStr) ==
    IF Trim(exprStr) = << >> THEN [ok |-> FALSE, error |-> EMPTY, full |-> << >>]
    ELSE IF Includes(exprStr, "=")
    THEN LET parts == Split(exprStr, "=", << >>)
         IN  IF Len(parts) > 2 THEN [ok |-> FALSE, error |-> MULTIPLE, full |-> << >>]
             ELSE [ok |-> TRUE, error |-> "", full |-> FullExpr(parts[1], parts[2])]
    ELSE [ok |-> TRUE, error |-> "", full |-> FullExpr(exprStr, << "0" >>)]

(***************************************************************************)
(* Inputs of the model.                                                    *)
(***************************************************************************)
\* the lexemes input expressions are built from
Chunks ==
    { << "x" >>, << "2" >>, << "(" >>, << ")" >>, << "+" >>, << "-" >>, << "*" >>,
      << "^" >>, << "." >>, << "=" >>, << " " >>, << "#" >>,
      << "f", "o", "o" >>, << "s", "i", "n" >>,
      << "c", "o", "n", "s", "t", "r", "u", "c", "t", "o", "r" >> }

RECURSIVE ChunkStrings(_)
ChunkStrings(m) ==
    IF m = 0 THEN { << >> }
    ELSE LET shorter == ChunkStrings(m - 1)
         IN  shorter \cup { s \o c : s \in shorter, c \in Chunks }

\* the characters of a TLA+ name of FUNCTIONS
NameChars(name) ==
    CASE name = "sin" -> << "s", "i", "n" >>
      [] name = "cos" -> << "c", "o", "s" >>
      [] name = "tan" -> << "t", "a", "n" >>
      [] name = "asin" -> << "a", "s", "i", "n" >>
      [] name = "acos" -> << "a", "c", "o", "s" >>
      [] name = "atan" -> << "a", "t", "a", "n" >>
      [] name = "exp" -> << "e", "x", "p" >>
      [] name = "ln" -> << "l", "n" >>
      [] name = "log" -> << "l", "o", "g" >>
      [] name = "log10" -> << "l", "o", "g", "1", "0" >>
      [] name = "sqrt" -> << "s", "q", "r", "t" >>
      [] name = "abs" -> << "a", "b", "s" >>

CallArgs == { << "x" >>, << "2" >>, << "0" >> }
\* fn '(' arg ')' for every function name
FuncCalls ==
    { NameChars(fn) \o << "(" >> \o arg \o << ")" >> : fn \in FUNCTIONS, arg \in CallArgs }

\* the sides of the equations L = R
Sides ==
    { << "x" >>, << " ", "x" >>, << "2", "x" >>, << "-", "x" >>, << "x", "-", "2" >>,
      << "2", "^", "x" >>, << "(", "x", ")" >>, << "x", "*", "x", "+", "2" >> }
Equations == { l \o << "=" >> \o r : l \in Sides, r \in Sides }

Inputs == ChunkStrings(MaxChunks) \cup FuncCalls \cup Equations \cup Sides

\* the arguments the compiled function is called with
XValues == { Num(0), Num(2), Num(-1) }

NoResult == [thrown |-> FALSE, error |-> "", value |-> Undef, under |-> FALSE]

(***************************************************************************)
(* math_solver.js: integrate.                                              *)
(***************************************************************************)
\* if (n % 3 !== 0) n += 3 - (n % 3)
\* padding that adds to a multiple of 3 too
PadNAlways(n) == n + (3 - (n % 3))

PadN(n) == IF n % 3 /= 0 THEN n + (3 - (n % 3)) ELSE n

\* the weights 2 and 3 exchanged
WeightSwapped(i) == IF i % 3 = 0 THEN 3 ELSE 2

\* the weight of interior node i
Weight(i) == IF i % 3 = 0 THEN 2 ELSE 3

\* the factor of Simpson's 1/3 rule
SimpsonThird(h, sum) == NumMul(NumDiv(h, Num(3)), sum)

\* (3 * h / 8) * sum
Simpson(h, sum) == NumMul(NumDiv(NumMul(Num(3), h), Num(8)), sum)

IdleInt ==
    [pc |-> "idle", a |-> Num(0), b |-> Num(0), n |-> 0, h |-> Num(0),
     sum |-> Num(0), i |-> 0, value |-> Undef, evals |-> 0,
     n0 |-> 0, xs |-> << >>]

\* the limits and subinterval counts integrate is called with
IntLower == { Num(0) }
IntUpper == { Num(3) }
MaxN == 3
\* the subinterval counts of the runs of integrate alone
MaxCount == 10


(***************************************************************************)
(* math_solver.js: findRoot.                                               *)
(***************************************************************************)
\* EPSILON = 1e-8, as the exponent of 10^-8
EPSILON_EXP == 8
\* the threshold 1e-14 of the flat-secant test, as the exponent of 10^-14
FLAT_EXP == 14
MAX_ITER == 1000
NOT_CONVERGED ==
    "Equation parser: Did not converge to a root. Try a different initial guess."

\* n * 10^e < d, for naturals n and d
RECURSIVE BelowPow10(_, _, _)
BelowPow10(n, d, e) ==
    IF e = 0 THEN n < d ELSE BelowPow10(n, (d + 9) \div 10, e - 1)

\* the outcomes of Math.abs(v) < 10^-e: false for NaN and the infinities,
\* either for a value the model does not compute
AbsBelow(v0, e) ==
    LET v == ToNumber(v0)
    IN  CASE v.k = "sym" -> { TRUE, FALSE }
          [] v.k = "nzero" -> { TRUE }
          [] v.k = "num" -> { BelowPow10(IAbs(v.n), v.d, e) }
          [] OTHER -> { FALSE }

\* a value the model does not compute, without the term it came from
Opaque(v) == IF v.k = "sym" THEN Sym(<< "?" >>) ELSE v

\* the secant update with the correction added
SecantAway(x0, x1, f0, f1) ==
    NumAdd(x1, NumDiv(NumMul(f1, NumSub(x1, x0)), NumSub(f1, f0)))

\* x1 - f1 * (x1 - x0) / (f1 - f0)
Secant(x0, x1, f0, f1) ==
    NumSub(x1, NumDiv(NumMul(f1, NumSub(x1, x0)), NumSub(f1, f0)))

\* a perturbation ten times as wide
PerturbationWide(r) == NumSub(r, Rat(1, 2))

\* (Math.random() - 0.5) * 0.1
Perturbation(r) == NumMul(NumSub(r, Rat(1, 2)), Rat(1, 10))

\* the values Math.random() returns
RandomDraws == { Num(0), Rat(1, 2), Rat(9, 10) }
\* the initial guesses findRoot is called with
Guesses == { Num(0), Num(1) }
\* perturbations by a non-zero amount in one call of findRoot
MaxWalk == 2

IdleRoot ==
    [pc |-> "idle", guess |-> Num(0), x0 |-> Num(0), x1 |-> Num(0),
     f0 |-> Undef, f1 |-> Undef, i |-> 0, value |-> Undef, error |-> "",
     walk |-> 0, at |-> 0, iters |-> 0, evals |-> 0,
     tested |-> { }, skipped |-> FALSE]

\* findRoot has returned v or thrown e: its locals are gone; iters and evals
\* (history) are the loop bodies entered and the evaluations of f made,
\* tested the seeds and secant iterates f was evaluated at, skipped whether
\* f was below EPSILON at a perturbed x1
Returned(run, v) ==
    [IdleRoot EXCEPT !.pc = "returned", !.value = v, !.guess = run.guess,
                     !.walk = run.walk, !.at = run.at,
                     !.iters = run.iters, !.evals = run.evals,
                     !.tested = run.tested, !.skipped = run.skipped]
Thrown(run, e) ==
    [IdleRoot EXCEPT !.pc = "thrown", !.error = e, !.guess = run.guess,
                     !.walk = run.walk, !.at = run.at,
                     !.iters = run.iters, !.evals = run.evals,
                     !.tested = run.tested, !.skipped = run.skipped]

\* one more loop body entered, one more evaluation of f
Entered(run) == [run EXCEPT !.iters = @ + 1, !.evals = @ + 1]

(***************************************************************************)
(* math_solver.js: findAllRoots.                                           *)
(***************************************************************************)
\* the threshold 1e-5 of the duplicate test, as the exponent of 10^-5
DEDUP_EXP == 5
NO_ROOTS ==
    "Did not converge to a root. Try a different initial guess or a valid equation."

\* Math.abs
NumAbs(v0) ==
    LET v == ToNumber(v0)
    IN  CASE v.k = "sym" -> Sym(<< "abs" >> \o v.t)
          [] v.k = "nan" -> NaN
          [] v.k \in { "pinf", "ninf" } -> PInf
          [] v.k = "nzero" -> Num(0)
          [] OTHER -> Rat(IAbs(v.n), v.d)

\* the outcomes of v <= 0: false for NaN, either for a value the model does
\* not compute
LeqZero(v0) ==
    LET v == ToNumber(v0)
    IN  CASE v.k = "sym" -> { TRUE, FALSE }
          [] v.k \in { "nzero", "ninf" } -> { TRUE }
          [] v.k = "num" -> { v.n <= 0 }
          [] OTHER -> { FALSE }

\* the signs a comparator result v can have; NaN counts as 0 (Array.prototype.sort)
SignOutcomes(v0) ==
    LET v == ToNumber(v0)
    IN  CASE v.k = "sym" -> { -1, 0, 1 }
          [] v.k = "num" -> { IF v.n < 0 THEN -1 ELSE IF v.n = 0 THEN 0 ELSE 1 }
          [] v.k = "pinf" -> { 1 }
          [] v.k = "ninf" -> { -1 }
          [] OTHER -> { 0 }

\* isDup against the root kept last only
IsDupLast(r, uniqueRoots, j) ==
    IF Len(uniqueRoots) = 0 THEN { FALSE }
    ELSE AbsBelow(NumSub(r, uniqueRoots[Len(uniqueRoots)]), DEDUP_EXP)

\* lines 86-92: the outcomes of isDup for r against uniqueRoots, from index j
RECURSIVE IsDupFrom(_, _, _)
IsDupFrom(r, uniqueRoots, j) ==
    IF j > Len(uniqueRoots) THEN { FALSE }
    ELSE UNION { IF c THEN { TRUE } ELSE IsDupFrom(r, uniqueRoots, j + 1) :
                 c \in AbsBelow(NumSub(r, uniqueRoots[j]), DEDUP_EXP) }

\* lines 84-94: the lists uniqueRoots can be after the roots from index k on
RECURSIVE UniqueFrom(_, _, _)
UniqueFrom(roots, k, uniqueRoots) ==
    IF k > Len(roots) THEN { uniqueRoots }
    ELSE UNION { UniqueFrom(roots, k + 1,
                            IF d THEN uniqueRoots ELSE Append(uniqueRoots, roots[k])) :
                 d \in IsDupFrom(roots[k], uniqueRoots, 1) }
UniqueRoots(roots) == UniqueFrom(roots, 1, << >>)

\* the comparator of line 97
Comparator(a, b, guess) ==
    NumSub(NumAbs(NumSub(a, guess)), NumAbs(NumSub(b, guess)))

\* an insertion that puts r before the elements it compares equal to
RECURSIVE InsertBeforeTies(_, _, _, _)
InsertBeforeTies(s, r, j, guess) ==
    IF j = 0 THEN { << r >> \o s }
    ELSE UNION { IF sg >= 0 THEN InsertBeforeTies(s, r, j - 1, guess)
                 ELSE { SubSeq(s, 1, j) \o << r >> \o SubSeq(s, j + 1, Len(s)) } :
                 sg \in SignOutcomes(Comparator(s[j], r, guess)) }

\* Array.prototype.sort is stable: as an insertion sort.  The lists that
\* result from inserting r into the sorted list s, below its elements from
\* index j down that the comparator puts after r
RECURSIVE InsertBelow(_, _, _, _)
InsertBelow(s, r, j, guess) ==
    IF j = 0 THEN { << r >> \o s }
    ELSE UNION { IF sg > 0 THEN InsertBelow(s, r, j - 1, guess)
                 ELSE { SubSeq(s, 1, j) \o << r >> \o SubSeq(s, j + 1, Len(s)) } :
                 sg \in SignOutcomes(Comparator(s[j], r, guess)) }

\* line 97: the lists sort can leave, u from index k on inserted into sorted
RECURSIVE SortFrom(_, _, _, _)
SortFrom(u, k, sorted, guess) ==
    IF k > Len(u) THEN { sorted }
    ELSE UNION { SortFrom(u, k + 1, s, guess) :
                 s \in InsertBelow(sorted, u[k], Len(sorted), guess) }
SortOutcomes(u, guess) == SortFrom(u, 1, << >>, guess)

IdleAll ==
    [pc |-> "idle", guess |-> Num(0), range |-> Num(0), steps |-> 0,
     roots |-> << >>, xStart |-> Num(0), dx |-> Num(0), i |-> 0,
     prevX |-> Num(0), prevY |-> Undef, currX |-> Num(0), currY |-> Undef,
     value |-> << >>, error |-> "", unique |-> << >>, seeded |-> "no",
     sweepEvals |-> 0, rootCalls |-> 0, pairs |-> << >>]

(***************************************************************************)
(* math_solver.js: solveLimit.                                             *)
(***************************************************************************)
KNOWN_INVALID == "Known limit is invalid."
AREA_INVALID == "Area is invalid."

\* the index of the first character of s from i on that is not white space
RECURSIVE SkipSpace(_, _)
SkipSpace(s, i) == IF i <= Len(s) /\ IsSpace(s[i]) THEN SkipSpace(s, i + 1) ELSE i

\* the index after the prefix digits [ '.' digits ] of s
MantissaEnd(s) ==
    LET e1 == DigitsEnd(s, 1)
    IN  IF e1 <= Len(s) /\ s[e1] = "." THEN DigitsEnd(s, e1 + 1) ELSE e1

\* the exponent part [eE] [+-] digits of s at index i: whether there is one,
\* its sign and its digits
ExponentAt(s, i) ==
    LET marked == i <= Len(s) /\ s[i] \in { "e", "E" }
        signed == marked /\ i + 1 <= Len(s) /\ s[i + 1] \in { "+", "-" }
        from == IF signed THEN i + 2 ELSE i + 1
        to == DigitsEnd(s, from)
    IN  [has |-> marked /\ to > from,
         neg |-> signed /\ s[i + 1] = "-",
         digits |-> IF marked /\ to > from THEN SubSeq(s, from, to - 1) ELSE << >>]

\* v * 10^e or v / 10^e
Scaled(v, ex) ==
    LET e == DigitsVal(ex.digits, 0)
        p == IF e < 0 THEN -1 ELSE Pow10(e)
    IN  IF ~ex.has \/ IsZero(v) THEN v
        ELSE IF p < 0 THEN Sym(<< "lit", Join(TermOf(v) \o << "e" >> \o ex.digits) >>)
        ELSE IF ex.neg THEN NumDiv(v, Num(p)) ELSE NumMul(v, Num(p))

IsPrefix(t, s) == Len(t) <= Len(s) /\ SubSeq(s, 1, Len(t)) = t

\* parseFloat on any string: white space is skipped, then the longest prefix
\* that is a signed decimal literal or a signed Infinity is the value, what
\* follows it is ignored, and the value is NaN when there is no such prefix
parseFloatString(s) ==
    LET i0 == SkipSpace(s, 1)
        signed == i0 <= Len(s) /\ s[i0] \in { "+", "-" }
        neg == signed /\ s[i0] = "-"
        rest == SubSeq(s, IF signed THEN i0 + 1 ELSE i0, Len(s))
        mant == parseFloat(rest)
        v == IF IsPrefix(<< "I", "n", "f", "i", "n", "i", "t", "y" >>, rest) THEN PInf
             ELSE IF mant.k = "nan" THEN NaN
             ELSE Scaled(mant, ExponentAt(rest, MantissaEnd(rest)))
    IN  IF neg THEN NumNeg(v) ELSE v

\* the outcomes of Math.abs(v) > 10^-e: false for NaN, either for a value the
\* model does not compute
RECURSIVE DivPow10(_, _)
DivPow10(d, e) == IF e = 0 THEN d ELSE DivPow10(d \div 10, e - 1)
AbsAbove(v0, e) ==
    LET v == ToNumber(v0)
    IN  CASE v.k = "sym" -> { TRUE, FALSE }
          [] v.k \in { "pinf", "ninf" } -> { TRUE }
          [] v.k = "num" -> { IAbs(v.n) > DivPow10(v.d, e) }
          [] OTHER -> { FALSE }

\* the outcomes of Math.abs(v) > 1000
AbsAboveLimit(v0) ==
    LET v == ToNumber(v0)
    IN  CASE v.k = "sym" -> { TRUE, FALSE }
          [] v.k \in { "pinf", "ninf" } -> { TRUE }
          [] v.k = "num" -> { IAbs(v.n) > 0 /\ (IAbs(v.n) - 1) \div 1000 >= v.d }
          [] OTHER -> { FALSE }

\* the threshold 1e-4 of the rectangle height, as the exponent of 10^-4
HEIGHT_EXP == 4

IdleLimit ==
    [pc |-> "idle", knownStr |-> << >>, areaStr |-> << >>, upper |-> FALSE,
     knownLimit |-> Undef, targetArea |-> Undef, guess |-> Undef, error |-> "",
     evals |-> 0, rootCalls |-> 0, value |-> Undef, g |-> << >>]

(***************************************************************************)
(* The state machine: one compile call, then calls of the function it      *)
(* returned, directly, from integrate and from findRoot.                   *)
(***************************************************************************)
VARIABLES
    exprStr,   \* the argument of compile
    pc,        \* "start", "ready", "tokenized", "compiled" or "failed"
    fullExpr,  \* compile's fullExpr
    tokens,    \* compile's tokens
    rpn,       \* the postfix program the closure holds
    error,     \* the message of the Error compile threw, "" when none
    steps,     \* history: the steps of compile taken so far
    xValue,    \* the argument of the latest direct call of the compiled function
    result,    \* what the latest direct call returned or threw
    calls,     \* the number of direct calls made so far
    stack,     \* the evaluator's stack as the latest evaluation left it
    ig,        \* the running or finished call of integrate
    fr,        \* the running or finished call of findRoot
    history,   \* history: the argument and outcome of every direct call so far
    fa,        \* the running or finished call of findAllRoots
    sl,        \* the running or finished call of solveLimit
    ev,        \* the calls of compiled functions two callers have in progress
    sy         \* toRPN token by token: its locals and the origin of its output

cvars == << exprStr, pc, fullExpr, tokens, rpn, error, steps >>
vars == << exprStr, pc, fullExpr, tokens, rpn, error, steps,
           xValue, result, calls, stack, ig, fr, history, fa, sl, ev, sy >>

\* direct calls of the compiled function made in one run
MaxCalls == 2

InitRest ==
    /\ fullExpr = << >>
    /\ rpn = << >>
    /\ error = ""
    /\ steps = << >>
    /\ xValue = Undef
    /\ result = NoResult
    /\ calls = 0
    /\ stack = << >>
    /\ ig = IdleInt
    /\ fr = IdleRoot
    /\ history = { }
    /\ fa = IdleAll
    /\ sl = IdleLimit
    /\ ev = InitEval
    /\ sy = IdleYard

Init ==
    /\ exprStr \in Inputs
    /\ pc = "start"
    /\ tokens = << >>
    /\ InitRest

\* compile, lines 118-129
CheckInput ==
    /\ pc = "start"
    /\ LET r == Prepare(exprStr)
       IN  /\ pc' = IF r.ok THEN "ready" ELSE "failed"
           /\ error' = r.error
           /\ fullExpr' = r.full
    /\ steps' = Append(steps, "check")
    /\ UNCHANGED << exprStr, tokens, rpn, xValue, result, calls, stack, ig, fr, history, fa, sl, ev, sy >>

\* compile, line 130
Tokenize ==
    /\ pc = "ready"
    /\ LET r == tokenize(fullExpr)
       IN  /\ pc' = IF r.ok THEN "tokenized" ELSE "failed"
           /\ error' = r.error
           /\ tokens' = r.tokens
    /\ steps' = Append(steps, "tokenize")
    /\ UNCHANGED << exprStr, fullExpr, rpn, xValue, result, calls, stack, ig, fr, history, fa, sl, ev, sy >>

\* compile, line 131 and the return of the closure
ToRPN ==
    /\ pc = "tokenized"
    /\ LET r == toRPN(tokens)
       IN  /\ pc' = IF r.ok THEN "compiled" ELSE "failed"
           /\ error' = r.error
           /\ rpn' = r.out
    /\ steps' = Append(steps, "toRPN")
    /\ UNCHANGED << exprStr, fullExpr, tokens, xValue, result, calls, stack, ig, fr, history, fa, sl, ev, sy >>

\* one direct call of the compiled function
Call ==
    /\ pc = "compiled"
    /\ calls < MaxCalls
    /\ \E x \in XValues :
          LET r == evaluate(rpn, x, stack)
              res == [thrown |-> r.thrown, error |-> r.error,
                      value |-> r.value, under |-> r.under]
          IN  /\ xValue' = x
              /\ result' = res
              /\ stack' = r.stack
              /\ history' = history \cup { [x |-> x, res |-> res] }
    /\ calls' = calls + 1
    /\ UNCHANGED << cvars, ig, fr, fa, sl, ev, sy >>

\* the arguments of the calls the two callers make, and the expression of a
\* second compiled function
EvalArgs == { Num(2), Num(-1) }
SecondExpr == << "x", "*", "x" >>
SecondProgram == toRPN(tokenize(Prepare(SecondExpr).full).tokens).out

\* line 134: caller c calls a compiled function, whose stack starts empty
EvalBegin(c) ==
    /\ pc = "compiled"
    /\ ev.call[c].pc = "idle"
    /\ \E prog \in { rpn, SecondProgram }, x \in EvalArgs :
          ev' = [ev EXCEPT !.call[c] = [IdleEval EXCEPT !.pc = "running", !.prog = prog,
                                                        !.x = x, !.i = 1],
                           !.stacks[OwnStack(c)] = << >>]
    /\ UNCHANGED << cvars, xValue, result, calls, stack, ig, fr, history, fa, sl, sy >>

\* lines 135-170: the call of caller c processes one token of its program
EvalToken(c) ==
    /\ ev.call[c].pc = "running"
    /\ ev.call[c].i <= Len(ev.call[c].prog)
    /\ ev' = [ev EXCEPT !.call[c].i = @ + 1,
                        !.stacks[OwnStack(c)] =
                            EvalStep(ev.call[c].prog[ev.call[c].i], ev.call[c].x, @),
                        !.mixed = @ \/ \E d \in Callers \ { c } :
                                          ev.call[d].pc = "running" /\ ev.call[d].i > 1]
    /\ UNCHANGED << cvars, xValue, result, calls, stack, ig, fr, history, fa, sl, sy >>

\* lines 172-173: the call of caller c returns or throws
EvalEnd(c) ==
    /\ ev.call[c].pc = "running"
    /\ ev.call[c].i > Len(ev.call[c].prog)
    /\ LET st == ev.stacks[OwnStack(c)]
       IN  ev' = [ev EXCEPT !.call[c].pc = "done",
                            !.call[c].res =
                                IF Len(st) /= 1
                                THEN [thrown |-> TRUE, error |-> INVALID, value |-> Undef]
                                ELSE [thrown |-> FALSE, error |-> "", value |-> st[1]]]
    /\ UNCHANGED << cvars, xValue, result, calls, stack, ig, fr, history, fa, sl, sy >>

\* toRPN, lines 68-104: one token
RpnToken ==
    /\ pc = "tokenized"
    /\ sy.pc = "loop"
    /\ sy.i <= Len(tokens)
    /\ sy' = YardToken(sy, tokens[sy.i])
    /\ UNCHANGED << cvars, xValue, result, calls, stack, ig, fr, history, fa, sl, ev >>

\* toRPN, lines 105-110: the tokens are used up
RpnFlush ==
    /\ pc = "tokenized"
    /\ sy.pc = "loop"
    /\ sy.i > Len(tokens)
    /\ sy' = YardFlushed(sy, Flush(sy.out, sy.ops))
    /\ UNCHANGED << cvars, xValue, result, calls, stack, ig, fr, history, fa, sl, ev >>

\* f(x0) then f(x1), on the stack prev: a call that throws ends the run
EvalSecond(r0, prog, x1) ==
    IF r0.thrown THEN << r0, r0 >> ELSE << r0, evaluate(prog, x1, r0.stack) >>
EvalPair(prog, x0, x1, prev) == EvalSecond(evaluate(prog, x0, prev), prog, x1)

\* integrate after f(a) and f(b), the results rs
IntegrateStarted(a, b, n0, n, h, rs) ==
    IF rs[1].thrown
    THEN [IdleInt EXCEPT !.pc = "thrown", !.a = a, !.b = b, !.n = n, !.h = h,
                         !.evals = 1, !.n0 = n0, !.xs = << a >>]
    ELSE IF rs[2].thrown
    THEN [IdleInt EXCEPT !.pc = "thrown", !.a = a, !.b = b, !.n = n, !.h = h,
                         !.evals = 2, !.n0 = n0, !.xs = << a, b >>]
    ELSE [pc |-> "loop", a |-> a, b |-> b, n |-> n, h |-> h,
          sum |-> NumAdd(rs[1].value, rs[2].value), i |-> 1,
          value |-> Undef, evals |-> 2, n0 |-> n0, xs |-> << a, b >>]

IntegrateBegin(a, b, n0, n, rs) ==
    /\ ig' = IntegrateStarted(a, b, n0, n, NumDiv(NumSub(b, a), Num(n)), rs)
    /\ stack' = rs[2].stack

\* integrate, lines 110-115, called with limits of lowers and uppers and a
\* count n0 of counts: pad n, compute h and the sum of the end values
IntegrateOver(lowers, uppers, counts) ==
    /\ pc = "compiled"
    /\ ig.pc = "idle"
    /\ \E a \in lowers, b \in uppers, n0 \in counts :
          IntegrateBegin(a, b, n0, PadN(n0), EvalPair(rpn, a, b, stack))
    /\ UNCHANGED << cvars, xValue, result, calls, fr, history, fa, sl, ev, sy >>

IntegrateWith(counts) == IntegrateOver(IntLower, IntUpper, counts)

IntegrateStart == IntegrateWith(1..MaxN)
IntegrateCounts == IntegrateWith(1..MaxCount)

\* integrate, lines 117-124: one iteration of the loop
IntegrateStep ==
    /\ ig.pc = "loop"
    /\ ig.i < ig.n
    /\ LET x == NumAdd(ig.a, NumMul(Num(ig.i), ig.h))
           fx == evaluate(rpn, x, stack)
       IN  /\ stack' = fx.stack
           /\ ig' = IF fx.thrown
                    THEN [ig EXCEPT !.pc = "thrown", !.evals = @ + 1,
                                    !.xs = Append(@, x)]
                    ELSE [ig EXCEPT !.sum = NumAdd(@, NumMul(Num(Weight(ig.i)), fx.value)),
                                    !.i = @ + 1, !.evals = @ + 1,
                                    !.xs = Append(@, x)]
    /\ UNCHANGED << cvars, xValue, result, calls, fr, history, fa, sl, ev, sy >>

\* integrate, line 126
IntegrateReturn ==
    /\ ig.pc = "loop"
    /\ ig.i >= ig.n
    /\ ig' = [ig EXCEPT !.pc = "done", !.value = Simpson(ig.h, ig.sum)]
    /\ UNCHANGED << cvars, xValue, result, calls, stack, fr, history, fa, sl, ev, sy >>

\* findRoot without the two early returns of lines 24-25
RootStartedNoEarlyReturn(base, rs, b0, b1) ==
    IF rs[1].thrown THEN Thrown([base EXCEPT !.evals = 1], rs[1].error)
    ELSE IF rs[2].thrown THEN Thrown([base EXCEPT !.evals = 2], rs[2].error)
    ELSE [base EXCEPT !.pc = "loop", !.f0 = Opaque(rs[1].value),
                      !.f1 = Opaque(rs[2].value), !.evals = 2]

\* findRoot after f(x0) and f(x1), the results rs; b0 and b1 are the outcomes
\* of the two tests against EPSILON
RootStarted(base, rs, b0, b1) ==
    IF rs[1].thrown THEN Thrown([base EXCEPT !.evals = 1], rs[1].error)
    ELSE IF rs[2].thrown THEN Thrown([base EXCEPT !.evals = 2], rs[2].error)
    ELSE IF b0 THEN Returned([base EXCEPT !.evals = 2], base.x0)
    ELSE IF b1 THEN Returned([base EXCEPT !.evals = 2], base.x1)
    ELSE [base EXCEPT !.pc = "loop", !.f0 = Opaque(rs[1].value),
                      !.f1 = Opaque(rs[2].value), !.evals = 2]

RootBegin(base, rs) ==
    /\ stack' = rs[2].stack
    /\ \E b0 \in AbsBelow(rs[1].value, EPSILON_EXP),
          b1 \in AbsBelow(rs[2].value, EPSILON_EXP) :
          fr' = RootStarted(base, rs, b0, b1)

RootGuess(guess, x1) ==
    RootBegin([IdleRoot EXCEPT !.guess = guess, !.x0 = guess, !.x1 = x1, !.at = calls,
                               !.tested = { guess, x1 }],
              EvalPair(rpn, guess, x1, stack))

\* findRoot, lines 17-25: the two first evaluations and the early returns
FindRootStart ==
    /\ pc = "compiled"
    /\ fr.pc = "idle"
    /\ \E guess \in Guesses : RootGuess(guess, NumAdd(guess, Rat(1, 10)))
    /\ UNCHANGED << cvars, xValue, result, calls, ig, history, fa, sl, ev, sy >>

\* the perturbation branch in a loop that counts only secant updates
RootPerturbedUncounted(run, off, x1, r) ==
    IF r.thrown
    THEN Thrown(Entered(run), r.error)
    ELSE [Entered(run) EXCEPT !.x1 = x1, !.f1 = Opaque(r.value),
                              !.walk = IF IsZero(off) THEN @ ELSE @ + 1]

\* lines 29-32 after f1 = f(x1), the result r: next iteration
RootPerturbed(run, off, x1, r) ==
    IF r.thrown
    THEN Thrown(Entered(run), r.error)
    ELSE [Entered(run) EXCEPT !.x1 = x1, !.f1 = Opaque(r.value), !.i = @ + 1,
                              !.walk = IF IsZero(off) THEN @ ELSE @ + 1,
                              !.skipped = @ \/ AbsBelow(r.value, EPSILON_EXP) = { TRUE }]

\* a secant update that returns x1, not x2, when x2 passes the test
RootSecantReturnsPrevious(run, x2, r, hit) ==
    IF r.thrown THEN Thrown(Entered(run), r.error)
    ELSE IF hit THEN Returned(Entered(run), run.x1)
    ELSE [Entered(run) EXCEPT !.x0 = run.x1, !.f0 = run.f1, !.x1 = x2,
                              !.f1 = Opaque(r.value), !.i = @ + 1]

\* a secant update without the test of line 38
RootSecantUntested(run, x2, r, hit) ==
    IF r.thrown THEN Thrown(Entered(run), r.error)
    ELSE [Entered(run) EXCEPT !.x0 = run.x1, !.f0 = run.f1, !.x1 = x2,
                              !.f1 = Opaque(r.value), !.i = @ + 1]

\* lines 35-43 after f2 = f(x2), the result r; hit is the outcome of the test
\* against EPSILON
RootSecant(run, x2, r, hit) ==
    IF r.thrown THEN Thrown(Entered(run), r.error)
    ELSE IF hit THEN Returned(Entered(run), x2)
    ELSE [Entered(run) EXCEPT !.x0 = run.x1, !.f0 = run.f1, !.x1 = x2,
                              !.f1 = Opaque(r.value), !.i = @ + 1]

RootIterated(run, flat, off, x, r) ==
    /\ stack' = r.stack
    /\ IF flat
       THEN fr' = RootPerturbed(run, off, x, r)
       ELSE \E hit \in AbsBelow(r.value, EPSILON_EXP) :
               fr' = RootSecant([run EXCEPT !.tested = @ \cup { x }], x, r, hit)

\* one iteration: flat is the outcome of the test of line 28, off the
\* perturbation drawn when it is true
RootIterate(run, flat, off) ==
    /\ (flat /\ ~IsZero(off)) => run.walk < MaxWalk
    /\ RootIterated(run, flat, off,
                    Opaque(IF flat THEN NumAdd(run.x1, off)
                                   ELSE Secant(run.x0, run.x1, run.f0, run.f1)),
                    evaluate(rpn, Opaque(IF flat THEN NumAdd(run.x1, off)
                                                 ELSE Secant(run.x0, run.x1, run.f0, run.f1)),
                             stack))

\* findRoot, lines 27-43: one iteration of the loop
FindRootIter ==
    /\ fr.pc = "loop"
    /\ fr.i < MAX_ITER
    /\ \E flat \in AbsBelow(NumSub(fr.f1, fr.f0), FLAT_EXP) :
          IF flat
          THEN \E r \in RandomDraws : RootIterate(fr, TRUE, Perturbation(r))
          ELSE RootIterate(fr, FALSE, Num(0))
    /\ UNCHANGED << cvars, xValue, result, calls, ig, history, fa, sl, ev, sy >>

\* findRoot, line 46: MAX_ITER iterations without a root
FindRootFail ==
    /\ fr.pc = "loop"
    /\ fr.i >= MAX_ITER
    /\ fr' = Thrown(fr, NOT_CONVERGED)
    /\ UNCHANGED << cvars, xValue, result, calls, stack, ig, history, fa, sl, ev, sy >>

\* the arguments findAllRoots is called with
Ranges == { Num(2) }
MaxSteps == 2

\* lines 52-57: the seeded call of findRoot
FindAllStart ==
    /\ pc = "compiled"
    /\ fa.pc = "idle"
    /\ fr.pc = "idle"
    /\ \E guess \in Guesses, range \in Ranges, n \in 1..MaxSteps :
          /\ fa' = [IdleAll EXCEPT !.pc = "seed", !.guess = guess, !.range = range,
                                   !.steps = n, !.rootCalls = 1]
          /\ RootGuess(guess, NumAdd(guess, Rat(1, 10)))
    /\ UNCHANGED << cvars, xValue, result, calls, ig, history, sl, ev, sy >>

\* findAllRoots after the seeded call, which left roots, and prevY = f(prevX),
\* the result r
AllSwept(run, roots, xStart, xEnd, r) ==
    IF r.thrown
    THEN [run EXCEPT !.pc = "thrown", !.error = r.error, !.roots = roots,
                     !.sweepEvals = 1]
    ELSE [run EXCEPT !.pc = "sweep", !.roots = roots, !.xStart = xStart,
                     !.dx = NumDiv(NumSub(xEnd, xStart), Num(run.steps)),
                     !.prevX = xStart, !.prevY = Opaque(r.value), !.i = 1,
                     !.sweepEvals = 1]

AllSeeded(run, roots, xStart, xEnd, r) ==
    /\ fa' = AllSwept(run, roots, xStart, xEnd, r)
    /\ stack' = r.stack
    /\ fr' = IdleRoot

\* lines 57-66: the seeded call has returned (its root is pushed) or thrown
\* (swallowed); then the sweep begins
FindAllSeeded ==
    /\ fa.pc = "seed"
    /\ fr.pc \in { "returned", "thrown" }
    /\ AllSeeded([fa EXCEPT !.seeded = IF fr.pc = "returned" THEN "root" ELSE "failed"],
                 IF fr.pc = "returned" THEN << fr.value >> ELSE << >>,
                 NumSub(fa.guess, fa.range), NumAdd(fa.guess, fa.range),
                 evaluate(rpn, NumSub(fa.guess, fa.range), stack))
    /\ UNCHANGED << cvars, xValue, result, calls, ig, history, sl, ev, sy >>

\* what the sweep has seen of one pair of nodes
Pair(run, currX, currY, called) ==
    [prevX |-> run.prevX, currX |-> currX, prevY |-> run.prevY, currY |-> currY,
     called |-> called, seed |-> Undef, failed |-> FALSE]

\* lines 69-72 and 79-80 after currY = f(currX), the result r; leq is the
\* outcome of the test of line 72
AllStepped(run, currX, r, leq) ==
    IF r.thrown
    THEN [run EXCEPT !.pc = "thrown", !.error = r.error, !.sweepEvals = @ + 1]
    ELSE IF leq
    THEN [run EXCEPT !.pc = "call", !.currX = currX, !.currY = Opaque(r.value),
                     !.sweepEvals = @ + 1,
                     !.pairs = Append(@, Pair(run, currX, Opaque(r.value), TRUE))]
    ELSE [run EXCEPT !.prevX = currX, !.prevY = Opaque(r.value), !.i = @ + 1,
                     !.sweepEvals = @ + 1,
                     !.pairs = Append(@, Pair(run, currX, Opaque(r.value), FALSE))]

AllStep(run, currX, r) ==
    /\ stack' = r.stack
    /\ \E leq \in LeqZero(NumMul(run.prevY, r.value)) :
          fa' = AllStepped(run, currX, r, leq)

\* lines 68-72: one node of the sweep
FindAllStep ==
    /\ fa.pc = "sweep"
    /\ fa.i <= fa.steps
    /\ AllStep(fa, NumAdd(fa.xStart, NumMul(Num(fa.i), fa.dx)),
               evaluate(rpn, NumAdd(fa.xStart, NumMul(Num(fa.i), fa.dx)), stack))
    /\ UNCHANGED << cvars, xValue, result, calls, ig, fr, history, sl, ev, sy >>

\* the seed of line 75
Midpoint(prevX, currX) == NumDiv(NumAdd(prevX, currX), Num(2))

AllCall(run, mid) ==
    /\ fa' = [run EXCEPT !.pc = "bracket", !.rootCalls = @ + 1,
                         !.pairs[Len(run.pairs)].seed = mid]
    /\ RootGuess(mid, NumAdd(mid, Rat(1, 10)))

\* line 75: findRoot is called at the midpoint of the pair
FindAllCall ==
    /\ fa.pc = "call"
    /\ AllCall(fa, Midpoint(fa.prevX, fa.currX))
    /\ UNCHANGED << cvars, xValue, result, calls, ig, history, sl, ev, sy >>

\* the call of line 75 outside a try block: what it throws ends findAllRoots
FindAllCollectRethrow ==
    /\ fa.pc = "bracket"
    /\ fr.pc \in { "returned", "thrown" }
    /\ fa' = IF fr.pc = "thrown"
             THEN [fa EXCEPT !.pc = "thrown", !.error = fr.error,
                             !.pairs[Len(fa.pairs)].failed = TRUE]
             ELSE [fa EXCEPT !.pc = "sweep", !.roots = Append(@, fr.value),
                             !.prevX = fa.currX, !.prevY = fa.currY, !.i = @ + 1]
    /\ fr' = IdleRoot
    /\ UNCHANGED << cvars, xValue, result, calls, stack, ig, history, sl, ev, sy >>

\* lines 76-80: the call has returned (its root is pushed) or thrown
\* (swallowed); the sweep goes on
FindAllCollect ==
    /\ fa.pc = "bracket"
    /\ fr.pc \in { "returned", "thrown" }
    /\ fa' = [fa EXCEPT !.pc = "sweep",
                        !.roots = IF fr.pc = "returned" THEN Append(@, fr.value) ELSE @,
                        !.pairs[Len(fa.pairs)].failed = (fr.pc = "thrown"),
                        !.prevX = fa.currX, !.prevY = fa.currY, !.i = @ + 1]
    /\ fr' = IdleRoot
    /\ UNCHANGED << cvars, xValue, result, calls, stack, ig, history, sl, ev, sy >>

\* the end of findAllRoots without the throw of lines 99-101
AllFinishedNoThrow(run, u, sorted) ==
    [run EXCEPT !.pc = "returned", !.value = sorted, !.unique = u]

\* lines 99-103 with uniqueRoots sorted
AllFinished(run, u, sorted) ==
    IF Len(sorted) = 0
    THEN [run EXCEPT !.pc = "thrown", !.error = NO_ROOTS, !.unique = u]
    ELSE [run EXCEPT !.pc = "returned", !.value = sorted, !.unique = u]

\* lines 83-103: the sweep is over
FindAllFinish ==
    /\ fa.pc = "sweep"
    /\ fa.i > fa.steps
    /\ \E u \in UniqueRoots(fa.roots) :
          \E sorted \in SortOutcomes(u, fa.guess) : fa' = AllFinished(fa, u, sorted)
    /\ UNCHANGED << cvars, xValue, result, calls, stack, ig, fr, history, sl, ev, sy >>

\* the strings and the flag solveLimit is called with
LimitStrings ==
    { << "2" >>, << "-", "1" >>, << "0", ".", "5" >>, << " ", "3" >>, << >>,
      << "a", "b", "c" >>, << "1", "x" >>, << "2", "e" >> }

\* lines 151-157: the guess, from valAtKnown = f(knownLimit); tall and wild
\* are the outcomes of the tests of lines 151 and 155
LimitGuess(run, val, tall, wild) ==
    LET rectHeight == IF tall THEN val ELSE Num(1)
        offset == NumDiv(run.targetArea, rectHeight)
        guessOffset == IF wild THEN Num(Sgn(offset) * 1000) ELSE offset
    IN  IF run.upper THEN NumAdd(run.knownLimit, guessOffset)
        ELSE NumSub(run.knownLimit, guessOffset)

\* lines 150-160 after valAtKnown = f(knownLimit), the result r: findRoot is
\* called with the guess
LimitGuessed(run, r) ==
    /\ stack' = r.stack
    /\ IF r.thrown
       THEN sl' = [run EXCEPT !.pc = "thrown", !.error = r.error, !.evals = 1]
       ELSE \E tall \in AbsAbove(r.value, HEIGHT_EXP) :
               \E wild \in AbsAboveLimit(NumDiv(run.targetArea,
                                                IF tall THEN r.value ELSE Num(1))) :
                  sl' = [run EXCEPT !.pc = "solving", !.evals = 1, !.rootCalls = 1,
                                    !.guess = Opaque(LimitGuess(run, r.value, tall, wild))]

\* lines 133-137 with the two strings parsed
LimitParsed(run) ==
    IF run.knownLimit.k = "nan"
    THEN sl' = [run EXCEPT !.pc = "thrown", !.error = KNOWN_INVALID] /\ UNCHANGED stack
    ELSE IF run.targetArea.k = "nan"
    THEN sl' = [run EXCEPT !.pc = "thrown", !.error = AREA_INVALID] /\ UNCHANGED stack
    ELSE LimitGuessed(run, evaluate(rpn, run.knownLimit, stack))

\* solveLimit, lines 132-160, called with arguments of args (knownLimitStr,
\* targetAreaStr, isUpperUnknown): the strings are parsed and tested, then
\* the guess is made and findRoot is called with it
SolveLimitWith(args) ==
    /\ pc = "compiled"
    /\ sl.pc = "idle"
    /\ \E arg \in args :
          LimitParsed([IdleLimit EXCEPT !.knownStr = arg[1], !.areaStr = arg[2],
                                        !.upper = arg[3],
                                        !.knownLimit = parseFloatString(arg[1]),
                                        !.targetArea = parseFloatString(arg[2])])
    /\ UNCHANGED << cvars, xValue, result, calls, ig, fr, history, fa, ev, sy >>

SolveLimitStart == SolveLimitWith(LimitStrings \X LimitStrings \X BOOLEAN)

(***************************************************************************)
(* solveLimit's g, lines 139-147, and findRoot(g, guess), lines 159-163,   *)
(* for compiled functions that return a value.                             *)
(***************************************************************************)
LIMIT_NOT_CONVERGED ==
    "Integration limit did not converge. The function might not reach the target area."

\* the largest count for which the sum of integrate is computed node by node
MaxGrid == 102

\* Math.ceil of the rational n/d >= 0
CeilNat(n, d) == (n + d - 1) \div d

\* the count without its upper limit
GridCountNoMax(c) == IF c < 30 THEN 30 ELSE c

\* Math.max(30, Math.min(3000, c))
GridCount(c) == IF c < 30 THEN 30 ELSE IF c > 3000 THEN 3000 ELSE c

\* the counts tried for a width the model does not compute
GridSample == { 31, 3000 }

\* line 144, the outcomes of n for a width; 0 stands for NaN (the width is NaN)
GridCounts(width) ==
    CASE width.k = "nan" -> { 0 }
      [] IsInf(width) -> { GridCount(3001) }
      [] IsFiniteNum(width) -> { GridCount(CeilNat(width.n * 50, width.d)) }
      [] OTHER -> GridSample

\* lines 140-141 with a and b exchanged
GLimitsSwapped(run, x) ==
    [a |-> IF run.upper THEN x ELSE run.knownLimit,
     b |-> IF run.upper THEN run.knownLimit ELSE x]

\* lines 140-141
GLimits(run, x) ==
    [a |-> IF run.upper THEN run.knownLimit ELSE x,
     b |-> IF run.upper THEN x ELSE run.knownLimit]

\* line 143
GWidth(run, x) == NumAbs(NumSub(GLimits(run, x).b, GLimits(run, x).a))

\* integrate's loop, lines 117-124, from i on
\* lines 118-123 after f(x), the result fx
IntegrateAdded(run, fx) ==
    IF fx.thrown
    THEN [run EXCEPT !.thrown = TRUE, !.error = fx.error, !.stack = fx.stack,
                     !.evals = @ + 1]
    ELSE [run EXCEPT !.sum = NumAdd(@, NumMul(Num(Weight(run.i)), fx.value)),
                     !.i = @ + 1, !.stack = fx.stack, !.evals = @ + 1]

RECURSIVE IntegrateLoop(_, _)
IntegrateLoop(prog, run) ==
    IF run.thrown \/ run.i >= run.n THEN run
    ELSE IntegrateLoop(prog,
            IntegrateAdded(run, evaluate(prog, NumAdd(run.a, NumMul(Num(run.i), run.h)),
                                         run.stack)))

\* line 126, unless f threw
IntegrateReturned(run) ==
    IF run.thrown THEN run ELSE [run EXCEPT !.value = Simpson(run.h, run.sum)]

\* integrate(f, a, b, n), lines 110-126, in one piece after f(a) and f(b),
\* the results rs; n = 0 stands for NaN, which line 112 leaves NaN and with
\* which the loop is not entered. The sum is computed for exact limits and
\* counts up to MaxGrid; otherwise the value is one the model does not
\* compute and only the last evaluation, which leaves the stack, is made.
IntegratedFrom(prog, run, rs, n) ==
    IF rs[1].thrown \/ rs[2].thrown
    THEN [run EXCEPT !.thrown = TRUE, !.sum = Undef,
                     !.error = IF rs[1].thrown THEN rs[1].error ELSE rs[2].error,
                     !.evals = IF rs[1].thrown THEN 1 ELSE 2]
    ELSE IF n = 0 THEN [run EXCEPT !.value = NaN]
    ELSE IF run.n <= MaxGrid /\ IsFiniteNum(run.a) /\ IsFiniteNum(run.b)
    THEN IntegrateReturned(IntegrateLoop(prog, run))
    ELSE [run EXCEPT !.value = Sym(<< "integrate" >>), !.sum = Sym(<< "sum" >>),
                     !.i = run.n, !.evals = run.n + 1,
                     !.stack = evaluate(prog,
                                        NumAdd(run.a, NumMul(Num(run.n - 1), run.h)),
                                        rs[2].stack).stack]

\* lines 112-115: the padded count, h and the sum of the end values
Integrated(prog, a, b, n, rs) ==
    IntegratedFrom(prog,
                   [a |-> a, b |-> b, n |-> IF n = 0 THEN 0 ELSE PadN(n),
                    h |-> IF n = 0 THEN NaN ELSE NumDiv(NumSub(b, a), Num(PadN(n))),
                    i |-> 1, evals |-> 2, sum |-> NumAdd(rs[1].value, rs[2].value),
                    thrown |-> FALSE, error |-> "", stack |-> rs[2].stack,
                    value |-> Undef],
                   rs, n)

\* g(x), lines 139-147, with the count n of line 144: the call of integrate
\* and, when it returned, its value less targetArea
GReturned(run, x, n, it) ==
    [x |-> x, a |-> it.a, b |-> it.b, n |-> n, used |-> it.n,
     thrown |-> it.thrown, error |-> it.error, stack |-> it.stack,
     value |-> IF it.thrown THEN Undef ELSE NumSub(it.value, run.targetArea)]

GOver(run, x, n, prev, a, b) ==
    GReturned(run, x, n, Integrated(rpn, a, b, n, EvalPair(rpn, a, b, prev)))

GCall(run, x, n, prev) == GOver(run, x, n, prev, GLimits(run, x).a, GLimits(run, x).b)

\* what sl keeps of a call of g
GKept(c) == [x |-> c.x, a |-> c.a, b |-> c.b, n |-> c.n, used |-> c.used]

\* findRoot's two first calls of g: c0 is g(x0), and g(x1) is called with
\* the count n1 unless g(x0) threw
GBoth(c0, c1, x1) ==
    /\ sl' = [sl EXCEPT !.pc = "searching",
                        !.g = IF c0.thrown THEN << GKept(c0) >>
                              ELSE << GKept(c0), GKept(c1) >>]
    /\ RootBegin([IdleRoot EXCEPT !.guess = sl.guess, !.x0 = sl.guess, !.x1 = x1,
                                  !.at = calls, !.tested = { sl.guess, x1 }],
                 << c0, c1 >>)

GSeeded(c0, x1, n1) ==
    GBoth(c0, IF c0.thrown THEN c0 ELSE GCall(sl, x1, n1, c0.stack), x1)

\* an iteration of findRoot after its call c of g at x
GIterated(flat, off, x, c) ==
    /\ sl' = [sl EXCEPT !.g = << GKept(c) >>]
    /\ RootIterated(fr, flat, off, x, c)

GIterate(flat, off, x) ==
    \E n \in GridCounts(GWidth(sl, x)) : GIterated(flat, off, x, GCall(sl, x, n, stack))

\* findRoot(g, guess), lines 17-25 of findRoot with g for f
SolveLimitRoot ==
    /\ sl.pc = "solving"
    /\ fr.pc = "idle"
    /\ \E n0 \in GridCounts(GWidth(sl, sl.guess)),
          n1 \in GridCounts(GWidth(sl, Opaque(NumAdd(sl.guess, Rat(1, 10))))) :
          GSeeded(GCall(sl, sl.guess, n0, stack), Opaque(NumAdd(sl.guess, Rat(1, 10))), n1)
    /\ UNCHANGED << cvars, xValue, result, calls, ig, history, fa, ev, sy >>

\* findRoot(g, guess), lines 27-43 of findRoot with g for f: one iteration
SolveLimitIter ==
    /\ sl.pc = "searching"
    /\ fr.pc = "loop"
    /\ fr.i < MAX_ITER
    /\ \E flat \in AbsBelow(NumSub(fr.f1, fr.f0), FLAT_EXP) :
          \E r \in IF flat THEN RandomDraws ELSE { Num(0) } :
             /\ (flat /\ ~IsZero(Perturbation(r))) => fr.walk < MaxWalk
             /\ GIterate(flat, Perturbation(r),
                         Opaque(IF flat THEN NumAdd(fr.x1, Perturbation(r))
                                        ELSE Secant(fr.x0, fr.x1, fr.f0, fr.f1)))
    /\ UNCHANGED << cvars, xValue, result, calls, ig, history, fa, ev, sy >>

\* findRoot(g, guess), line 46 of findRoot: MAX_ITER iterations without a root
SolveLimitFail ==
    /\ sl.pc = "searching"
    /\ fr.pc = "loop"
    /\ fr.i >= MAX_ITER
    /\ fr' = Thrown(fr, NOT_CONVERGED)
    /\ UNCHANGED << cvars, xValue, result, calls, stack, ig, history, fa, sl, ev, sy >>

\* lines 159-163: what findRoot returned is returned; whatever it threw is
\* replaced by one Error
SolveLimitEnd ==
    /\ sl.pc = "searching"
    /\ fr.pc \in { "returned", "thrown" }
    /\ sl' = IF fr.pc = "returned"
             THEN [sl EXCEPT !.pc = "returned", !.value = fr.value]
             ELSE [sl EXCEPT !.pc = "thrown", !.error = LIMIT_NOT_CONVERGED]
    /\ UNCHANGED << cvars, xValue, result, calls, stack, ig, fr, history, fa, ev, sy >>

Next == CheckInput \/ Tokenize \/ ToRPN \/ Call

Spec == Init /\ [][Next]_vars

(***************************************************************************)
(* The expression grammar                                                  *)
(*   expr   := term (('+'|'-') term)*                                      *)
(*   term   := factor (('*'|'/') factor)*                                  *)
(*   factor := base ('^' factor)?                                          *)
(*   base   := number | 'x' | const | func '(' expr ')' | '(' expr ')'     *)
(*             | ('-'|'+') base                                            *)
(* as a recursive-descent evaluator over a token stream: the value of the  *)
(* parse at x, and the position after it.                                  *)
(***************************************************************************)
NoParse == [ok |-> FALSE, pos |-> 0, val |-> Undef]
Parsed(pos, val) == [ok |-> TRUE, pos |-> pos, val |-> val]
IsOp(ts, i, ops) == i <= Len(ts) /\ ts[i].type = "op" /\ ts[i].value \in ops

RECURSIVE ParseExpr(_, _, _), ExprRest(_, _, _, _), ParseTerm(_, _, _),
          TermRest(_, _, _, _), ParseFactor(_, _, _), ParseBase(_, _, _)

ParseExpr(ts, i, x) ==
    LET l == ParseTerm(ts, i, x)
    IN  IF l.ok THEN ExprRest(ts, l.pos, l.val, x) ELSE NoParse

ExprRest(ts, i, acc, x) ==
    IF IsOp(ts, i, { "+", "-" })
    THEN LET r == ParseTerm(ts, i + 1, x)
         IN  IF ~r.ok THEN NoParse
             ELSE ExprRest(ts, r.pos,
                           IF ts[i].value = "+" THEN NumAdd(acc, r.val)
                           ELSE NumSub(acc, r.val), x)
    ELSE Parsed(i, acc)

ParseTerm(ts, i, x) ==
    LET l == ParseFactor(ts, i, x)
    IN  IF l.ok THEN TermRest(ts, l.pos, l.val, x) ELSE NoParse

TermRest(ts, i, acc, x) ==
    IF IsOp(ts, i, { "*", "/" })
    THEN LET r == ParseFactor(ts, i + 1, x)
         IN  IF ~r.ok THEN NoParse
             ELSE TermRest(ts, r.pos,
                           IF ts[i].value = "*" THEN NumMul(acc, r.val)
                           ELSE NumDiv(acc, r.val), x)
    ELSE Parsed(i, acc)

ParseFactor(ts, i, x) ==
    LET l == ParseBase(ts, i, x)
    IN  IF ~l.ok THEN NoParse
        ELSE IF IsOp(ts, l.pos, { "^" })
        THEN LET r == ParseFactor(ts, l.pos + 1, x)
             IN  IF r.ok THEN Parsed(r.pos, NumPow(l.val, r.val)) ELSE NoParse
        ELSE l

ParseBase(ts, i, x) ==
    IF i > Len(ts) THEN NoParse
    ELSE LET t == ts[i]
         IN  CASE t.type = "num" -> Parsed(i + 1, t.num)
               [] t.type = "var" -> Parsed(i + 1, x)
               [] t.type = "unary" ->
                     LET r == ParseBase(ts, i + 1, x)
                     IN  IF ~r.ok THEN NoParse
                         ELSE Parsed(r.pos, IF t.value = "neg" THEN NumNeg(r.val) ELSE r.val)
               [] t.type = "func" ->
                     IF ~IsOp(ts, i + 1, { "(" }) THEN NoParse
                     ELSE LET r == ParseExpr(ts, i + 2, x)
                          IN  IF r.ok /\ IsOp(ts, r.pos, { ")" })
                              THEN Parsed(r.pos + 1, ApplyFunc(t.value, r.val))
                              ELSE NoParse
               [] t.type = "op" /\ t.value = "(" ->
                     LET r == ParseExpr(ts, i + 1, x)
                     IN  IF r.ok /\ IsOp(ts, r.pos, { ")" })
                         THEN Parsed(r.pos + 1, r.val)
                         ELSE NoParse
               [] OTHER -> NoParse

\* the token stream is one expr of the grammar
Conforms(ts) ==
    LET r == ParseExpr(ts, 1, Num(0))
    IN  r.ok /\ r.pos = Len(ts) + 1

\* the value of the grammar's parse of ts at x
GrammarValue(ts, x) == ParseExpr(ts, 1, x).val

(***************************************************************************)
(* Token streams: the expressions of at most MaxTok tokens built from two  *)
(* operands, the five binary operators, the unary signs and two functions. *)
(***************************************************************************)
AtomToks == { NumTok(Num(2)), Tok("var", "x") }
UnaryToks == { Tok("unary", "neg"), Tok("unary", "pos") }
BinToks == { Tok("op", o) : o \in { "+", "-", "*", "/", "^" } }
FuncToks == { Tok("func", "sqrt"), Tok("func", "ln") }
Open == Tok("op", "(")
Close == Tok("op", ")")

\* the expressions of exactly m tokens
RECURSIVE GenStreams(_)
GenStreams(m) ==
    IF m <= 0 THEN { }
    ELSE (IF m = 1 THEN { << a >> : a \in AtomToks } ELSE { })
         \cup { << u >> \o e : u \in UnaryToks, e \in GenStreams(m - 1) }
         \cup { << Open >> \o e \o << Close >> : e \in GenStreams(m - 2) }
         \cup { << f, Open >> \o e \o << Close >> : f \in FuncToks, e \in GenStreams(m - 3) }
         \cup UNION { { l \o << o >> \o r : l \in GenStreams(j), o \in BinToks,
                                            r \in GenStreams(m - 1 - j) } : j \in 1..(m - 2) }

TokenStreams == UNION { GenStreams(m) : m \in 1..MaxTok }

\* compile has tokenized: the token stream is any expression of TokenStreams
InitRPN ==
    /\ exprStr = << >>
    /\ pc = "tokenized"
    /\ tokens \in TokenStreams
    /\ InitRest

\* a run makes one direct call or one call of integrate
NextRPN ==
    \/ ToRPN
    \/ (ig.pc = "idle" /\ calls = 0 /\ Call)
    \/ (calls = 0 /\ IntegrateStart)
    \/ IntegrateStep
    \/ IntegrateReturn

SpecRPN == InitRPN /\ [][NextRPN]_vars

(***************************************************************************)
(* The solvers: compile of a few expressions, then direct calls of the     *)
(* compiled function with calls of integrate and findRoot between them.    *)
(***************************************************************************)
\* 2*x-4 (a root the secant step reaches), 2 (flat: the perturbation branch),
\* x.5 (every call throws)
SolveInputs ==
    { << "2", "*", "x", "-", "4" >>, << "2" >>, << "x", ".", "5" >> }

InitSolve ==
    /\ exprStr \in SolveInputs
    /\ pc = "start"
    /\ tokens = << >>
    /\ InitRest

\* the solvers are called one after the other, between the first direct call
\* and the next
NextSolve ==
    \/ CheckInput
    \/ Tokenize
    \/ ToRPN
    \/ (ig.pc /= "loop" /\ fr.pc /= "loop" /\ Call)
    \/ (calls = 1 /\ fr.pc /= "loop" /\ IntegrateStart)
    \/ IntegrateStep
    \/ IntegrateReturn
    \/ (calls = 1 /\ ig.pc /= "loop" /\ FindRootStart)
    \/ FindRootIter
    \/ FindRootFail

SpecSolve == InitSolve /\ [][NextSolve]_vars

(***************************************************************************)
(* findRoot alone: compile of an expression, then one call of findRoot.    *)
(***************************************************************************)
\* x and x-1.1 (a seed is the root), 2*x-4, 2 (flat everywhere), 0/0 (NaN
\* everywhere), 1/0 (Infinity everywhere), x*x-4 (iterates the model does not
\* compute), x/100000000000000000+1 (a line of slope 1e-17),
\* (x-0.05)*(x-0.05) (the same value at the seeds 0 and 0.1, a zero between)
RootInputs ==
    { << "(", "x", "-", "0", ".", "0", "5", ")", "*", "(", "x", "-", "0", ".", "0", "5", ")" >>,
      << "x" >>, << "x", "-", "1", ".", "1" >>, << "2", "*", "x", "-", "4" >>,
      << "2" >>, << "0", "/", "0" >>, << "1", "/", "0" >>,
      << "x", "*", "x", "-", "4" >>,
      << "x", "/", "1", "0", "0", "0", "0", "0", "0", "0", "0", "0", "0", "0",
         "0", "0", "0", "0", "0", "0", "+", "1" >> }

InitRoot ==
    /\ exprStr \in RootInputs
    /\ pc = "start"
    /\ tokens = << >>
    /\ InitRest

NextRoot ==
    \/ CheckInput
    \/ Tokenize
    \/ ToRPN
    \/ FindRootStart
    \/ FindRootIter
    \/ FindRootFail

SpecRoot == InitRoot /\ [][NextRoot]_vars

(***************************************************************************)
(* tokenize alone: MathParser.tokenize called on an expression             *)
(***************************************************************************)
InitTok ==
    /\ exprStr \in ChunkStrings(MaxChunks)
    /\ pc = "ready"
    /\ tokens = << >>
    /\ fullExpr = exprStr
    /\ rpn = << >>
    /\ error = ""
    /\ steps = << >>
    /\ xValue = Undef
    /\ result = NoResult
    /\ calls = 0
    /\ stack = << >>
    /\ ig = IdleInt
    /\ fr = IdleRoot
    /\ history = { }
    /\ fa = IdleAll
    /\ sl = IdleLimit
    /\ ev = InitEval
    /\ sy = IdleYard

NextTok == Tokenize

SpecTok == InitTok /\ [][NextTok]_vars

(***************************************************************************)
(* toRPN token by token, on the tokens of compiled expressions             *)
(***************************************************************************)
YardInputs ==
    Sides \cup Equations \cup FuncCalls
    \cup { << "-", "x", "^", "2" >>, << "2", "^", "-", "x" >>, << "-", "-", "x" >>,
           << "-", "(", "x", "+", "2", ")", "*", "x" >>, << "2", "*", "-", "x", "+", "2" >>,
           << "2", "-", "x", "*", "-", "x", "^", "2" >>, << "x", ")" >>, << "(", "x" >>,
           << "s", "i", "n", "+", "2" >>, << "-", "+", "x", "/", "2" >>,
           << "-", "2", "^", "-", "x", "^", "2" >> }

InitYard ==
    /\ exprStr \in YardInputs
    /\ pc = "start"
    /\ tokens = << >>
    /\ InitRest

NextYard ==
    \/ CheckInput
    \/ Tokenize
    \/ RpnToken
    \/ RpnFlush

SpecYard == InitYard /\ [][NextYard]_vars

(***************************************************************************)
(* Interleaved callers: two calls of compiled functions that take their    *)
(* steps in any order, with a call of integrate and a call of findRoot     *)
(* taking theirs between them.                                             *)
(***************************************************************************)
ConcInputs == { << "2", "*", "x", "-", "4" >>, << "x" >> }

InitConc ==
    /\ exprStr \in ConcInputs
    /\ pc = "start"
    /\ tokens = << >>
    /\ InitRest

NextConc ==
    \/ CheckInput
    \/ Tokenize
    \/ ToRPN
    \/ \E c \in Callers : EvalBegin(c)
    \/ \E c \in Callers : EvalToken(c)
    \/ \E c \in Callers : EvalEnd(c)
    \/ IntegrateStart
    \/ IntegrateStep
    \/ IntegrateReturn
    \/ FindRootStart
    \/ FindRootIter

SpecConc == InitConc /\ [][NextConc]_vars

(***************************************************************************)
(* integrate on compiled functions, with counts up to MaxCount             *)
(***************************************************************************)
IntInputs ==
    { << "x" >>, << "x", "*", "x" >>, << "2" >>, << "1", "/", "x" >>,
      << "0", "/", "0" >> }

InitInt ==
    /\ exprStr \in IntInputs
    /\ pc = "start"
    /\ tokens = << >>
    /\ InitRest

NextInt ==
    \/ CheckInput
    \/ Tokenize
    \/ ToRPN
    \/ IntegrateCounts
    \/ IntegrateStep
    \/ IntegrateReturn

SpecInt == InitInt /\ [][NextInt]_vars

(***************************************************************************)
(* integrate on polynomials of degree at most 3, between limits in either  *)
(* order                                                                   *)
(***************************************************************************)
\* the polynomials, each with its coefficients c0, c1, c2, c3
Cubics ==
    { [expr |-> << "2" >>, c |-> << 2, 0, 0, 0 >>],
      [expr |-> << "x" >>, c |-> << 0, 1, 0, 0 >>],
      [expr |-> << "x", "*", "x" >>, c |-> << 0, 0, 1, 0 >>],
      [expr |-> << "x", "^", "3" >>, c |-> << 0, 0, 0, 1 >>],
      [expr |-> << "2", "*", "x", "^", "3", "-", "x", "*", "x", "+", "x", "-", "1" >>,
       c |-> << -1, 1, -1, 2 >>] }
CubicLower == { Num(0), Num(-1), Num(2) }
CubicUpper == { Num(3), Num(-1) }

IntegrateCubic == IntegrateOver(CubicLower, CubicUpper, 1..MaxCount)

InitCubic ==
    /\ exprStr \in { p.expr : p \in Cubics }
    /\ pc = "start"
    /\ tokens = << >>
    /\ InitRest

NextCubic ==
    \/ CheckInput
    \/ Tokenize
    \/ ToRPN
    \/ IntegrateCubic
    \/ IntegrateStep
    \/ IntegrateReturn

SpecCubic == InitCubic /\ [][NextCubic]_vars

(***************************************************************************)
(* solveLimit on compiled functions                                        *)
(***************************************************************************)
LimitInputs ==
    { << "2" >>, << "x" >>, << "1", "/", "x" >>, << "0", "/", "0" >>,
      << "x", "/", "1", "0", "0", "0", "0", "0" >> }

InitLimit ==
    /\ exprStr \in LimitInputs
    /\ pc = "start"
    /\ tokens = << >>
    /\ InitRest

NextLimit ==
    \/ CheckInput
    \/ Tokenize
    \/ ToRPN
    \/ SolveLimitStart

SpecLimit == InitLimit /\ [][NextLimit]_vars

(***************************************************************************)
(* solveLimit to its end: findRoot on g                                    *)
(***************************************************************************)
BoundInputs == { << "2" >>, << "0", "/", "0" >> }
\* the arguments of solveLimit: the widths are 1, 1 and 100
NearArgs == { << << "2" >>, << "2" >>, TRUE >>, << << "2" >>, << "2" >>, FALSE >> }
BoundArgs == NearArgs \cup { << << "2" >>, << "2", "0", "0" >>, TRUE >> }

SolveLimitSome == SolveLimitWith(BoundArgs)
SolveLimitNear == SolveLimitWith(NearArgs)

InitBound ==
    /\ exprStr \in BoundInputs
    /\ pc = "start"
    /\ tokens = << >>
    /\ InitRest

NextBound ==
    \/ CheckInput
    \/ Tokenize
    \/ ToRPN
    \/ SolveLimitSome
    \/ SolveLimitRoot
    \/ SolveLimitIter
    \/ SolveLimitFail
    \/ SolveLimitEnd

SpecBound == InitBound /\ [][NextBound]_vars

(***************************************************************************)
(* findAllRoots on compiled functions                                      *)
(***************************************************************************)
AllInputs ==
    { << "x" >>, << "2", "*", "x", "-", "4" >>, << "2" >>, << "0", "/", "0" >>,
      << "x", "*", "x", "-", "1" >>, << "x", "/", "0" >> }

InitAll ==
    /\ exprStr \in AllInputs
    /\ pc = "start"
    /\ tokens = << >>
    /\ InitRest

NextAll ==
    \/ CheckInput
    \/ Tokenize
    \/ ToRPN
    \/ FindAllStart
    \/ FindRootIter
    \/ FindRootFail
    \/ FindAllSeeded
    \/ FindAllStep
    \/ FindAllCall
    \/ FindAllCollect
    \/ FindAllFinish

SpecAll == InitAll /\ [][NextAll]_vars

(***************************************************************************)
(* The callers of findRoot: findAllRoots, or solveLimit with its g         *)
(***************************************************************************)
NextReturned ==
    \/ CheckInput
    \/ Tokenize
    \/ ToRPN
    \/ (sl.pc = "idle" /\ FindAllStart)
    \/ (sl.pc = "idle" /\ FindRootIter)
    \/ (sl.pc = "idle" /\ FindRootFail)
    \/ FindAllSeeded
    \/ FindAllStep
    \/ FindAllCall
    \/ FindAllCollect
    \/ FindAllFinish
    \/ (fa.pc = "idle" /\ exprStr \in BoundInputs /\ SolveLimitNear)
    \/ SolveLimitRoot
    \/ SolveLimitIter
    \/ SolveLimitFail
    \/ SolveLimitEnd

SpecReturned == InitAll /\ [][NextReturned]_vars

(***************************************************************************)
(* The end of findAllRoots (lines 83-103) on the lists of candidates a     *)
(* sweep of MaxSteps steps can collect                                     *)
(***************************************************************************)
\* candidate roots: 398/399, 399/400 and 400/401 are each within 1e-5 of the
\* next, the first and the last are not; -1 and 1 are equally far from 0
Candidates == { Num(-1), Num(1), Rat(398, 399), Rat(399, 400), Rat(400, 401) }

RECURSIVE ListsUpTo(_, _)
ListsUpTo(S, n) ==
    IF n = 0 THEN { << >> }
    ELSE LET shorter == ListsUpTo(S, n - 1)
         IN  shorter \cup { Append(l, c) : l \in shorter, c \in S }

\* findAllRoots when its sweep is over
Swept(guess, range, roots) ==
    [IdleAll EXCEPT !.pc = "sweep", !.guess = guess, !.range = range,
                    !.steps = MaxSteps, !.i = MaxSteps + 1, !.roots = roots,
                    !.sweepEvals = MaxSteps + 1]

InitDedup ==
    /\ exprStr = << >>
    /\ pc = "compiled"
    /\ tokens = << >>
    /\ fullExpr = << >>
    /\ rpn = << >>
    /\ error = ""
    /\ steps = << >>
    /\ xValue = Undef
    /\ result = NoResult
    /\ calls = 0
    /\ stack = << >>
    /\ ig = IdleInt
    /\ fr = IdleRoot
    /\ history = { }
    /\ sl = IdleLimit
    /\ ev = InitEval
    /\ sy = IdleYard
    /\ \E guess \in Guesses, range \in Ranges :
          \E roots \in ListsUpTo(Candidates, MaxSteps + 1) :
             fa = Swept(guess, range, roots)

NextDedup == FindAllFinish

SpecDedup == InitDedup /\ [][NextDedup]_vars

(***************************************************************************)
(* Helpers of the properties.                                              *)
(***************************************************************************)
Minus == Tok("op", "-")
Zero == NumTok(Num(0))
CountChar(s, c) == Cardinality({ j \in DOMAIN s : s[j] = c })
\* the postfix program of the expression s compiled on its own
Program(s) == toRPN(tokenize(s).tokens).out
\* s tokenizes and its token stream is an expr of the grammar
WellFormed(s) == tokenize(s).ok /\ Conforms(tokenize(s).tokens)
\* the value of the program p at x
ValueAt(p, x) == evaluate(p, x, << >>).value
NonFinite(v) == v.k \in { "nan", "pinf", "ninf" }
IsNumber(v) == v.k \in { "num", "nzero", "nan", "pinf", "ninf", "sym" }

\* ( minus ) among the first j characters of s
Depth(s, j) ==
    CountChar(SubSeq(s, 1, j), "(") - CountChar(SubSeq(s, 1, j), ")")
\* a ')' with no '(' open before it, or a '(' never closed
Unbalanced(s) == (\E j \in DOMAIN s : Depth(s, j) < 0) \/ Depth(s, Len(s)) > 0

\* the identifiers of s: the maximal runs of a letter followed by letters
\* and digits
Identifiers(s) ==
    { Join(SubSeq(s, j, NameEnd(s, j) - 1)) :
        j \in { m \in DOMAIN s : IsLetter(s[m])
                                 /\ (m = 1 \/ ~(IsLetter(s[m - 1]) \/ IsDigit(s[m - 1]))) } }
KnownNames == FUNCTIONS \cup { "pi", "e", "x" }

(***************************************************************************)
(* C1: tokenizing fn '(' arg ')' gives the func token fn immediately       *)
(* followed by the open-parenthesis token, for each of the twelve function *)
(* names, and the compiled program applies fn to the value of arg.         *)
(***************************************************************************)
C1_FuncThenOpenParen ==
    \A fn \in FUNCTIONS, arg \in CallArgs :
        (exprStr = NameChars(fn) \o << "(" >> \o arg \o << ")" >>
         /\ pc \in { "tokenized", "compiled", "failed" })
        => /\ pc /= "failed"
           /\ tokens[2] = Tok("func", fn)
           /\ tokens[3] = Open
           /\ (pc = "compiled" => rpn[2] = Tok("func", fn))

(***************************************************************************)
(* C2: for an input L = R with one '=' and well-formed L and R, compile    *)
(* succeeds, the program is program(L), program(R), '-', and a call        *)
(* returns L(x) - R(x); for a well-formed E with no '=', the program is    *)
(* program(E), 0, '-' and a call returns E(x) - 0.                         *)
(***************************************************************************)
C2_EquationIsDifference ==
    LET parts == Split(exprStr, "=", << >>)
        lhs == parts[1]
        rhs == IF Len(parts) = 2 THEN parts[2] ELSE << "0" >>
    IN  (pc \in { "compiled", "failed" } /\ Len(parts) <= 2
         /\ WellFormed(lhs) /\ WellFormed(rhs))
        => /\ pc = "compiled"
           /\ rpn = Program(lhs) \o Program(rhs) \o << Minus >>
           /\ (Len(parts) = 1 => Program(rhs) = << Zero >>)
           /\ (calls >= 1 =>
                 /\ ~result.thrown
                 /\ result.value = NumSub(ValueAt(Program(lhs), xValue),
                                          ValueAt(Program(rhs), xValue)))

C2_Witness ==
    /\ pc = "compiled"
    /\ calls >= 1
    /\ CountChar(exprStr, "=") = 1
    /\ LET parts == Split(exprStr, "=", << >>)
       IN  WellFormed(parts[1]) /\ WellFormed(parts[2]) /\ Len(parts[2]) >= 3
    /\ result.value.k = "num"

(***************************************************************************)
(* C4: compile raises the mismatched-parentheses error for every           *)
(* expression whose parentheses do not balance (a ')' with no '(' before   *)
(* it, or a '(' left open): no such expression compiles.                   *)
(***************************************************************************)
C4_UnbalancedRejected == Unbalanced(exprStr) => pc /= "compiled"

(***************************************************************************)
(* C5: no identifier other than the twelve function names, pi, e and x is  *)
(* turned into a token: tokenizing an expression that holds one fails.     *)
(***************************************************************************)
C5_UnknownIdentifierRejected ==
    pc \in { "tokenized", "compiled" }
    => \A name \in Identifiers(Normalize(fullExpr)) : name \in KnownNames

C7_NoStructuralErrorAfterCompile == pc = "compiled" => ~result.thrown

(***************************************************************************)
(* C8: a program in which a token pops from an empty stack is reported as  *)
(* a malformed-program error instead of yielding a value.                  *)
(***************************************************************************)
C8_UnderflowReported == (calls >= 1 /\ result.under) => result.thrown

(***************************************************************************)
(* C3: for every token stream that is an expr of the grammar, toRPN        *)
(* succeeds and the program, run on the stack machine, returns the value   *)
(* of the grammar's parse at every x: '+' '-' loosest and left-            *)
(* associative, '*' '/' tighter and left-associative, '^' tightest and     *)
(* right-associative, the first value popped being the right operand.      *)
(***************************************************************************)
C3_RpnMatchesGrammar ==
    (pc \in { "compiled", "failed" } /\ Conforms(tokens))
    => /\ pc = "compiled"
       /\ (calls >= 1 =>
             /\ ~result.thrown
             /\ ~result.under
             /\ result.value = GrammarValue(tokens, xValue))

\* 2 ^ x ^ 2 at x = -1: 2 ^ ((-1) ^ 2) = 2, and not (2 ^ -1) ^ 2 = 1/4
C3_Witness ==
    /\ pc = "compiled"
    /\ calls >= 1
    /\ tokens = << NumTok(Num(2)), Tok("op", "^"), Tok("var", "x"), Tok("op", "^"),
                   NumTok(Num(2)) >>
    /\ xValue = Num(-1)
    /\ result.value = Num(2)

\* the stack of the program p at x before its last token
StackBeforeLast(p, x) == EvalLoop(SubSeq(p, 1, Len(p) - 1), 1, x, << >>, FALSE).stack

(***************************************************************************)
(* C9: a call of a structurally valid program raises no error whatever x   *)
(* is: it returns a number, which is infinite or NaN after a division by   *)
(* zero and NaN after sqrt or ln of a negative number; integrate raises no *)
(* error and returns a number when f is not finite at a node, and its      *)
(* result is not finite when the sum is not.                               *)
(***************************************************************************)
C9_NonFiniteIsReturned ==
    /\ (calls >= 1 /\ pc = "compiled") =>
          /\ ~result.thrown
          /\ IsNumber(result.value)
          /\ LET top == Top(rpn)
                 st == StackBeforeLast(rpn, xValue)
             IN  /\ (top = Tok("op", "/") /\ IsZero(st[Len(st)])
                     /\ st[Len(st) - 1].k /= "sym")
                    => NonFinite(result.value)
                 /\ (top \in FuncToks /\ st[Len(st)].k = "num" /\ st[Len(st)].n < 0)
                    => result.value = NaN
    /\ ig.pc /= "thrown"
    /\ ig.pc = "loop" => IsNumber(ig.sum)
    /\ ig.pc = "done" =>
          /\ IsNumber(ig.value)
          /\ (NonFinite(ig.sum) /\ ~IsZero(ig.h)) => NonFinite(ig.value)

\* an integrate call over a node where f is infinite returned Infinity
C9_Witness ==
    /\ ig.pc = "done"
    /\ ig.evals = ig.n + 1
    /\ ValueAt(rpn, ig.a) = PInf
    /\ ig.value = PInf

(***************************************************************************)
(* C10: a compiled function is pure.  Any two direct calls with the same   *)
(* argument had the same outcome, whatever calls (direct calls with other  *)
(* arguments, integrate, findRoot and its random perturbations) were made  *)
(* between them, and the postfix program the function holds is still the   *)
(* one compile produced.                                                   *)
(***************************************************************************)
C10_CompiledFunctionIsPure ==
    /\ \A s, t \in history : s.x = t.x => s.res = t.res
    /\ pc = "compiled" => rpn = toRPN(tokens).out

\* two direct calls with the same argument, a finished integrate and a
\* findRoot that perturbed x1 by a non-zero amount between them
C10_Witness ==
    /\ calls = 2
    /\ Cardinality(history) = 1
    /\ ~result.thrown
    /\ ig.pc = "done"
    /\ fr.pc = "thrown" /\ fr.error = NOT_CONVERGED
    /\ fr.walk > 0
    /\ fr.at = 1

\* findRoot has returned or thrown
RootFinished == fr.pc \in { "returned", "thrown" }
\* f(x) as a call of the compiled function alone returns it
FAt(x) == evaluate(rpn, x, << >>).value
\* guess + 0.1
SecondSeed(guess) == NumAdd(guess, Rat(1, 10))

(***************************************************************************)
(* C11: findRoot short-circuit.  When |f(guess)| < 1e-8 findRoot returns   *)
(* exactly guess; otherwise, when |f(guess + 0.1)| < 1e-8, it returns      *)
(* exactly guess + 0.1.  In both cases the loop body is never entered: no  *)
(* secant update, no perturbation, two evaluations of f.                   *)
(***************************************************************************)
C11_ShortCircuit ==
    RootFinished =>
        LET b0 == AbsBelow(FAt(fr.guess), EPSILON_EXP)
            b1 == AbsBelow(FAt(SecondSeed(fr.guess)), EPSILON_EXP)
            early == fr.pc = "returned" /\ fr.iters = 0 /\ fr.walk = 0 /\ fr.evals = 2
        IN  /\ b0 = { TRUE } => early /\ fr.value = fr.guess
            /\ (b0 = { FALSE } /\ b1 = { TRUE }) =>
                  early /\ fr.value = SecondSeed(fr.guess)
            /\ (b0 = { FALSE } /\ b1 = { FALSE }) => (fr.iters > 0 \/ fr.pc = "thrown")

\* findRoot returned guess + 0.1, a root that guess is not, without iterating
C11_Witness ==
    /\ fr.pc = "returned"
    /\ fr.iters = 0
    /\ fr.value = SecondSeed(fr.guess)
    /\ AbsBelow(FAt(fr.guess), EPSILON_EXP) = { FALSE }
    /\ AbsBelow(FAt(fr.value), EPSILON_EXP) = { TRUE }


AllDone == fa.pc \in { "returned", "thrown" }

AllRunning == fa.pc \in { "seed", "sweep", "call", "bracket" }

\* the steps a running call of findRoot can still take: its iterations and
\* the throw of line 46
RootLeft == IF fr.pc = "loop" THEN MAX_ITER - fr.i + 1 ELSE 0
\* the steps one node of the sweep can take: its evaluation, the call of
\* findRoot, that call's steps, and the push
NodeSteps == MAX_ITER + 4
\* the steps a call of findAllRoots can still take
AllLeft ==
    CASE fa.pc = "seed" -> fa.steps * NodeSteps + 2 + RootLeft
      [] fa.pc = "sweep" -> (fa.steps - fa.i + 1) * NodeSteps + 1
      [] fa.pc = "call" -> (fa.steps - fa.i) * NodeSteps + 1 + (NodeSteps - 1)
      [] fa.pc = "bracket" -> (fa.steps - fa.i) * NodeSteps + 2 + RootLeft
      [] OTHER -> 0

\* C12: findRoot enters its loop body at most 1000 times and evaluates f at
\* most 1002 times before it returns or throws; findAllRoots evaluates f in
\* its sweep exactly steps + 1 times and calls findRoot at most steps + 1
\* times; while findAllRoots waits for findRoot that call is running or has
\* finished, and every step of a running call leaves it fewer steps to take,
\* so that no call runs forever.
C12_Termination ==
    /\ [](/\ fr.iters <= MAX_ITER
          /\ fr.evals <= MAX_ITER + 2
          /\ fr.evals <= fr.iters + 2
          /\ fa.rootCalls <= fa.steps + 1
          /\ fa.sweepEvals <= fa.steps + 1
          /\ AllDone => fa.sweepEvals = fa.steps + 1
          /\ fa.pc \in { "seed", "bracket" } => fr.pc \in { "loop", "returned", "thrown" }
          /\ fr.pc = "loop" => fr.i <= MAX_ITER)
    /\ [][AllRunning => (AllLeft' < AllLeft /\ AllLeft' >= 0)]_vars

\* findRoot has run out of iterations inside findAllRoots, which then finished
C12_Witness ==
    /\ AllDone
    /\ fa.rootCalls = fa.steps + 1
    /\ fa.steps = MaxSteps
    /\ \E k \in 1..Len(fa.pairs) : fa.pairs[k].failed

\* the expressions of RootInputs that are a*x + b with a /= 0; the last has
\* a = 10^-17
LinearInputs ==
    { << "x" >>, << "x", "-", "1", ".", "1" >>, << "2", "*", "x", "-", "4" >>,
      << "x", "/", "1", "0", "0", "0", "0", "0", "0", "0", "0", "0", "0", "0",
         "0", "0", "0", "0", "0", "0", "+", "1" >> }
\* findRoot returned from line 24 or 25
ShortCircuited == fr.pc = "returned" /\ fr.iters = 0
\* the outcomes of the test of line 28 on the two first values of f
FirstFlat ==
    AbsBelow(NumSub(FAt(SecondSeed(fr.guess)), FAt(fr.guess)), FLAT_EXP)
\* v is a zero of f, as far as the model computes f(v)
IsRootOfF(v) == FAt(v).k = "sym" \/ IsZero(FAt(v))
\* findRoot returned a zero of f from its first secant update
OneSecantUpdate ==
    /\ fr.pc = "returned"
    /\ fr.iters = 1
    /\ fr.evals = 3
    /\ fr.walk = 0
    /\ IsRootOfF(fr.value)

\* C13 as stated: for every linear f with a /= 0 and every guess at which
\* neither early return is taken, findRoot returns the root from its first
\* secant update.
C13_AsStated ==
    /\ (RootFinished /\ exprStr \in LinearInputs /\ ~ShortCircuited) => OneSecantUpdate
    /\ (fr.pc = "loop" /\ exprStr \in LinearInputs) => fr.iters = 0

\* C13: for every linear f with a /= 0 and every guess at which neither
\* early return is taken and |f(guess + 0.1) - f(guess)| is not below 1e-14,
\* findRoot returns the root -b/a from its first secant update, with three
\* evaluations of f and no perturbation.
C13_LinearOneSecant ==
    (exprStr \in LinearInputs /\ FirstFlat = { FALSE }) =>
        /\ (RootFinished /\ ~ShortCircuited) =>
              OneSecantUpdate /\ fr.value.k = "num" /\ IsZero(FAt(fr.value))
        /\ fr.pc = "loop" => fr.iters = 0

\* 2*x - 4 from guess 0: the root 2 from the first secant update
C13_Witness ==
    /\ exprStr = << "2", "*", "x", "-", "4" >>
    /\ fr.guess = Num(0)
    /\ OneSecantUpdate
    /\ fr.value = Num(2)

\* a and b are within 1e-5 of each other
Within(a, b) == AbsBelow(NumSub(a, b), DEDUP_EXP) = { TRUE }
\* the place of the first root v in the list l
FirstIndex(l, v) == CHOOSE k \in 1..Len(l) : l[k] = v /\ \A m \in 1..(k - 1) : l[m] /= v
\* the increasing choices of Len(u) places in l
Places(l, u) ==
    { idx \in [1..Len(u) -> 1..Len(l)] :
         \A a, b \in 1..Len(u) : a < b => idx[a] < idx[b] }

\* C14: the list findAllRoots returns has no two roots within 1e-5 of each
\* other, and of the candidates it is the first discovered that are kept:
\* the kept roots are candidates in discovery order, and every candidate
\* that was dropped is within 1e-5 of a candidate discovered before it and
\* kept.
C14_Dedup ==
    fa.pc = "returned" =>
        /\ \A a, b \in 1..Len(fa.value) : a /= b => ~Within(fa.value[a], fa.value[b])
        /\ { fa.value[a] : a \in 1..Len(fa.value) } = { fa.unique[a] : a \in 1..Len(fa.unique) }
        /\ Len(fa.value) = Len(fa.unique)
        /\ \E idx \in Places(fa.roots, fa.unique) :
              /\ \A a \in 1..Len(fa.unique) : fa.unique[a] = fa.roots[idx[a]]
              /\ \A k \in 1..Len(fa.roots) :
                    (\A a \in 1..Len(fa.unique) : idx[a] /= k) =>
                       \E a \in 1..Len(fa.unique) :
                          idx[a] < k /\ Within(fa.roots[k], fa.unique[a])

\* 398/399, 399/400, 400/401: the second is dropped for the first, the
\* third is kept, being within 1e-5 of the dropped one only
C14_Witness ==
    /\ fa.pc = "returned"
    /\ fa.roots = << Rat(398, 399), Rat(399, 400), Rat(400, 401) >>
    /\ fa.unique = << Rat(398, 399), Rat(400, 401) >>

\* C15: the list findAllRoots returns is in the order of |root - guess|,
\* smallest first, and of two roots as far from guess the one discovered
\* first comes first.
C15_SortedByDistance ==
    fa.pc = "returned" =>
        \A a, b \in 1..Len(fa.value) :
            a < b =>
               LET sg == SignOutcomes(Comparator(fa.value[a], fa.value[b], fa.guess))
               IN  \/ sg = { -1 }
                   \/ /\ sg = { 0 }
                      /\ FirstIndex(fa.roots, fa.value[a]) < FirstIndex(fa.roots, fa.value[b])

\* 1 was discovered before -1, both at distance 1 from the guess 0, and
\* 399/400 is nearer
C15_Witness ==
    /\ fa.pc = "returned"
    /\ fa.guess = Num(0)
    /\ fa.roots = << Num(1), Rat(399, 400), Num(-1) >>
    /\ fa.value = << Rat(399, 400), Num(1), Num(-1) >>

\* a call of findRoot made by findAllRoots has returned a root
AllProduced ==
    \/ fa.seeded = "root"
    \/ \E k \in 1..Len(fa.pairs) : fa.pairs[k].called /\ ~fa.pairs[k].failed

\* C16: findAllRoots calls findRoot at the guess before it evaluates f for
\* the sweep, and goes on to sweep whether that call returned or threw; it
\* throws (the message of line 100) exactly when neither that call nor a
\* call of the sweep returned a root, and otherwise returns a list that is
\* not empty.
C16_SeededThenSweep ==
    /\ fa.pc = "seed" => (fr.guess = fa.guess /\ fa.sweepEvals = 0 /\ fa.rootCalls = 1)
    /\ (fa.sweepEvals > 0 \/ AllDone) => fa.seeded \in { "root", "failed" }
    /\ fa.seeded = "root" => (Len(fa.roots) >= 1 /\ fa.pc /= "thrown")
    /\ AllDone =>
          /\ fa.sweepEvals = fa.steps + 1
          /\ fa.pc = "thrown" <=> ~AllProduced
          /\ fa.pc = "thrown" => fa.error = NO_ROOTS
          /\ fa.pc = "returned" => Len(fa.value) >= 1

\* the seeded call threw and the sweep found no root either
C16_Witness ==
    /\ fa.pc = "thrown"
    /\ fa.error = NO_ROOTS
    /\ fa.seeded = "failed"
    /\ fa.steps = MaxSteps
    /\ fa.sweepEvals = MaxSteps + 1

\* node j of the sweep: steps + 1 equally spaced points from guess - range
\* to guess + range
Node(j) ==
    NumAdd(NumSub(fa.guess, fa.range),
           NumDiv(NumMul(Num(2 * j), fa.range), Num(fa.steps)))
\* the calls of findRoot the sweep has made
SweepCalls == { k \in 1..Len(fa.pairs) : fa.pairs[k].seed /= Undef }

\* C17: the pairs the sweep examines are the adjacent nodes, in order;
\* findRoot is called for a pair exactly when the product of the two values
\* of f is <= 0 (never when it is NaN), with the midpoint of the pair as its
\* seed; and a call that throws ends neither the sweep nor findAllRoots:
\* when findAllRoots ends every one of the steps pairs has been examined.
C17_Sweep ==
    /\ \A k \in 1..Len(fa.pairs) :
          LET p == fa.pairs[k]
          IN  /\ p.prevX = Node(k - 1)
              /\ p.currX = Node(k)
              /\ p.called \in LeqZero(NumMul(p.prevY, p.currY))
              /\ NumMul(p.prevY, p.currY).k = "nan" => ~p.called
              /\ p.seed /= Undef => (p.called /\ p.seed = Midpoint(Node(k - 1), Node(k)))
              /\ (p.called /\ (k < Len(fa.pairs) \/ fa.pc /= "call")) => p.seed /= Undef
              /\ p.failed => p.called
    /\ fa.rootCalls = (IF fa.pc = "idle" THEN 0 ELSE 1) + Cardinality(SweepCalls)
    /\ Len(fa.pairs) <= fa.steps
    /\ AllDone => Len(fa.pairs) = fa.steps

\* x/0 about the guess 1: the call for the first pair (-inf, +inf) threw,
\* and the second pair was examined all the same
C17_Witness ==
    /\ AllDone
    /\ fa.steps = 2
    /\ fa.pairs[1].called /\ fa.pairs[1].failed
    /\ fa.pairs[1].prevY = NInf /\ fa.pairs[1].currY = PInf
    /\ ~fa.pairs[2].called

\* the nodes a + i*h of a call of integrate, for i = 0..n
IntNodes == { NumAdd(ig.a, NumMul(Num(i), ig.h)) : i \in 0..ig.n }

\* C18: the subinterval count integrate uses is the least multiple of 3 that
\* is not below the count it was called with, h is (b - a) over that count,
\* and a call that returns has evaluated f once at each of the padded count
\* + 1 nodes a + i*h, i = 0..padded count, and nowhere else.
C18_PaddedCount ==
    ig.pc /= "idle" =>
        /\ ig.n % 3 = 0
        /\ ig.n >= ig.n0
        /\ ig.n - ig.n0 < 3
        /\ ig.h = NumDiv(NumSub(ig.b, ig.a), Num(ig.n))
        /\ ig.evals = Len(ig.xs)
        /\ \A j \in 1..Len(ig.xs) : ig.xs[j] \in IntNodes
        /\ \A j, k \in 1..Len(ig.xs) : j /= k => ig.xs[j] /= ig.xs[k]
        /\ ig.pc = "done" =>
              /\ ig.evals = ig.n + 1
              /\ { ig.xs[j] : j \in 1..Len(ig.xs) } = IntNodes

\* integrate called with 10 subintervals used 12 and evaluated f 13 times
C18_Witness ==
    /\ ig.pc = "done"
    /\ ig.n0 = 10
    /\ ig.n = 12
    /\ ig.evals = 13
    /\ ig.h = Rat(1, 4)

\* f(a) + f(b) + the sum over the interior nodes 1..m of w(i) * f(a + i*h),
\* with w(i) = 2 for i a multiple of 3 and 3 otherwise
RECURSIVE WeightedSum(_)
WeightedSum(m) ==
    IF m = 0 THEN NumAdd(FAt(ig.a), FAt(ig.b))
    ELSE NumAdd(WeightedSum(m - 1),
                NumMul(Num(IF m % 3 = 0 THEN 2 ELSE 3),
                       FAt(NumAdd(ig.a, NumMul(Num(m), NumDiv(NumSub(ig.b, ig.a), Num(ig.n)))))))

\* C19: integrate returns (3h/8) * (f(a) + f(b) + sum over i in 1..n-1 of
\* w(i) * f(a + i*h)), with h = (b - a)/n for the padded count n and w(i) = 2
\* when i is a multiple of 3, 3 otherwise; while it runs, sum is that sum
\* over the interior nodes before i.
C19_SimpsonThreeEighths ==
    /\ ig.pc = "loop" => ig.sum = WeightedSum(ig.i - 1)
    /\ ig.pc = "done" =>
          ig.value = NumMul(NumDiv(NumMul(Num(3), NumDiv(NumSub(ig.b, ig.a), Num(ig.n))),
                                   Num(8)),
                            WeightedSum(ig.n - 1))

\* x*x over [0, 3] with 12 subintervals: 9, the integral
C19_Witness ==
    /\ ig.pc = "done"
    /\ exprStr = << "x", "*", "x" >>
    /\ ig.n = 12
    /\ ig.value = Num(9)

\* s is a decimal numeral and nothing else: an optional sign, digits with an
\* optional fraction (or a fraction alone), an optional exponent; white space
\* around it apart
RECURSIVE TrimEnd(_)
TrimEnd(s) == IF s /= << >> /\ IsSpace(s[Len(s)]) THEN TrimEnd(SubSeq(s, 1, Len(s) - 1)) ELSE s
IsNumericString(s0) ==
    LET s == TrimEnd(SubSeq(s0, SkipSpace(s0, 1), Len(s0)))
        signed == s /= << >> /\ s[1] \in { "+", "-" }
        body == IF signed THEN Tail(s) ELSE s
        m == MantissaEnd(body)
        ex == ExponentAt(body, m)
        hasDigit == \E j \in 1..(m - 1) : IsDigit(body[j])
    IN  /\ hasDigit
        /\ \/ m = Len(body) + 1
           \/ ex.has /\ m + 1 + (IF ex.neg \/ body[m + 1] = "+" THEN 1 ELSE 0) + Len(ex.digits)
                           = Len(body) + 1
SolveLimitInvalid == sl.pc = "thrown" /\ sl.error \in { KNOWN_INVALID, AREA_INVALID }

\* C20: when knownLimitStr is not a numeral solveLimit throws 'Known limit
\* is invalid.', and when it is one and targetAreaStr is not, 'Area is
\* invalid.'; in both cases without an evaluation of f or a call of
\* findRoot.
C20_InvalidStringsRejected ==
    sl.pc /= "idle" =>
        /\ ~IsNumericString(sl.knownStr) => (sl.pc = "thrown" /\ sl.error = KNOWN_INVALID)
        /\ (IsNumericString(sl.knownStr) /\ ~IsNumericString(sl.areaStr)) =>
              (sl.pc = "thrown" /\ sl.error = AREA_INVALID)
        /\ SolveLimitInvalid => (sl.evals = 0 /\ sl.rootCalls = 0)

\* what a call of the program prog with the argument x returns when it is
\* the only call in progress
EvalAlone(prog, x) ==
    LET r == evaluate(prog, x, << >>)
    IN  [thrown |-> r.thrown, error |-> r.error, value |-> r.value]
\* what findRoot returns for f and guess on its own, f being a line that is
\* not flat: a seed that passes the test of lines 24-25, or the first secant
\* iterate
RootAlone(guess) ==
    LET x1 == SecondSeed(guess)
    IN  IF AbsBelow(FAt(guess), EPSILON_EXP) = { TRUE } THEN guess
        ELSE IF AbsBelow(FAt(x1), EPSILON_EXP) = { TRUE } THEN x1
        ELSE Secant(guess, x1, FAt(guess), FAt(x1))
\* what integrate returns for f, a, b and the padded count n on its own
IntegrateAlone ==
    NumMul(NumDiv(NumMul(Num(3), NumDiv(NumSub(ig.b, ig.a), Num(ig.n))), Num(8)),
           WeightedSum(ig.n - 1))

(***************************************************************************)
(* C21: no state is shared between calls.  Whatever the order in which two *)
(* calls of compiled functions (of the same one or of two), a call of      *)
(* integrate and a call of findRoot take their steps, each returns what it *)
(* returns when it runs alone, and the postfix program is the one compile  *)
(* produced.                                                               *)
(***************************************************************************)
C21_NoSharedState ==
    /\ \A c \in Callers :
          ev.call[c].pc = "done" =>
             ev.call[c].res = EvalAlone(ev.call[c].prog, ev.call[c].x)
    /\ ig.pc = "done" => ig.value = IntegrateAlone
    /\ RootFinished => (fr.pc = "returned" /\ fr.value = RootAlone(fr.guess))
    /\ pc = "compiled" => rpn = toRPN(tokens).out

\* the two callers have called two programs with two arguments, one took a
\* step while the other was under way, and both have returned, while
\* integrate and findRoot are both in their loops
C21_Witness ==
    /\ \A c \in Callers : ev.call[c].pc = "done" /\ ~ev.call[c].res.thrown
    /\ ev.mixed
    /\ ev.call[1].prog /= ev.call[2].prog
    /\ ev.call[1].x /= ev.call[2].x
    /\ ig.pc = "loop" /\ ig.i >= 2
    /\ fr.pc = "loop"

\* the places of t (the index of the character after the place) where the
\* normalised expression out has a '*' that t has not
RECURSIVE Insertions(_, _, _, _)
Insertions(t, out, j, k) ==
    IF j > Len(t) \/ k > Len(out) THEN { }
    ELSE IF out[k] = t[j] THEN Insertions(t, out, j + 1, k + 1)
         ELSE { j } \cup Insertions(t, out, j, k + 1)
\* the character at j is a digit of a number, not one of the name log10
NumberDigit(t, j) ==
    /\ IsDigit(t[j])
    /\ ~\E m \in { j - 4, j - 3 } :
          m >= 1 /\ m + 4 <= Len(t) /\ SubSeq(t, m, m + 4) = << "l", "o", "g", "1", "0" >>
\* the character at j is the variable x: an x with no letter next to it
IsVarX(t, j) ==
    /\ t[j] = "x"
    /\ ~(j > 1 /\ IsLetter(t[j - 1]))
    /\ ~(j < Len(t) /\ IsLetter(t[j + 1]))
\* the index after the run of letters that starts at j
RECURSIVE LettersEnd(_, _)
LettersEnd(t, j) == IF j <= Len(t) /\ IsLetter(t[j]) THEN LettersEnd(t, j + 1) ELSE j
\* a variable, function name or constant name starts at j: the letters from
\* j on, or the letters and digits, are one
StartsName(t, j) ==
    /\ IsLetter(t[j])
    /\ ~(j > 1 /\ IsLetter(t[j - 1]))
    /\ \/ Join(SubSeq(t, j, LettersEnd(t, j) - 1)) \in KnownNames
       \/ Join(SubSeq(t, j, NameEnd(t, j) - 1)) \in KnownNames
\* the places where a multiplication is implied
ImpliedAt(t, j) ==
    \/ (NumberDigit(t, j - 1) \/ t[j - 1] = ")") /\ (t[j] = "(" \/ StartsName(t, j))
    \/ (IsVarX(t, j - 1) \/ t[j - 1] = ")") /\ IsDigit(t[j])
    \/ IsVarX(t, j - 1) /\ t[j] = "("

\* every run of letters of t starts a variable, function name or constant
\* name
OnlyKnownNames(t) ==
    \A j \in DOMAIN t : (IsLetter(t[j]) /\ (j = 1 \/ ~IsLetter(t[j - 1]))) => StartsName(t, j)

(***************************************************************************)
(* C22: in an expression whose names are all recognized the normalizer     *)
(* inserts a '*' between two adjacent characters exactly when the first is *)
(* a digit or ')' and the second starts a variable, function name or       *)
(* constant name or is '(', when the first is the variable x or ')' and    *)
(* the second a digit, and when the first is the variable x and the second *)
(* '('; nowhere else: not inside a number, not inside or after a           *)
(* recognized identifier, not next to an operator.                         *)
(***************************************************************************)
C22_ImplicitMultiplication ==
    LET t == StripLower(fullExpr)
    IN  (Len(steps) >= 2 /\ OnlyKnownNames(t)) =>
            Insertions(t, Normalize(fullExpr), 1, 1) = { j \in 2..Len(t) : ImpliedAt(t, j) }

\* the characters of the normalised expression that are operators or
\* parentheses, as their indices in order
RECURSIVE OpPlaces(_, _)
OpPlaces(n, i) ==
    IF i > Len(n) THEN << >>
    ELSE (IF n[i] \in OpChars THEN << i >> ELSE << >>) \o OpPlaces(n, i + 1)
\* the tokens that are operators, parentheses or signs, in order
OpTokens(ts) == SelectSeq(ts, LAMBDA t : t.type \in { "op", "unary" })
\* the character before place i is one a sign can follow as a sign
AfterOperator(n, i) == i > 1 /\ n[i - 1] \in { "+", "-", "*", "/", "^", "(" }

(***************************************************************************)
(* C23: of an expression that tokenizes, every '+' and '-' of the          *)
(* normalised expression is emitted as the unary token pos or neg when it  *)
(* is the first character or the character before it is one of + - * / ^ ( *)
(* and as the binary operator otherwise (after a digit, a dot, a letter or *)
(* ')'); the other operator characters are emitted as themselves.          *)
(***************************************************************************)
C23_UnaryIffAfterOperator ==
    pc = "tokenized" =>
        LET n == Normalize(fullExpr)
            at == OpPlaces(n, 1)
            ops == OpTokens(tokens)
        IN  /\ Len(ops) = Len(at)
            /\ \A k \in 1..Len(at) :
                  LET c == n[at[k]]
                  IN  IF c \in { "+", "-" } /\ (at[k] = 1 \/ AfterOperator(n, at[k]))
                      THEN ops[k] = Tok("unary", IF c = "-" THEN "neg" ELSE "pos")
                      ELSE ops[k] = Tok("op", c)

\* -x- : the first minus is the sign, the second, after a letter, the operator
C23_Witness ==
    /\ pc = "tokenized"
    /\ fullExpr = << "-", "x", "-" >>
    /\ tokens = << Tok("unary", "neg"), Tok("var", "x"), Tok("op", "-") >>

\* the index of the ')' that closes the '(' at j - 1, from j on at depth d
RECURSIVE MatchClose(_, _, _)
MatchClose(ts, j, d) ==
    IF j > Len(ts) THEN 0
    ELSE IF ts[j] = Open THEN MatchClose(ts, j + 1, d + 1)
    ELSE IF ts[j] = Close THEN (IF d = 1 THEN j ELSE MatchClose(ts, j + 1, d - 1))
    ELSE MatchClose(ts, j + 1, d)
\* the index of the last token of the base that starts at j: a number or the
\* variable, a parenthesised expression, a function applied to one, or a
\* sign and its base; 0 when no base starts at j
RECURSIVE BaseEnd(_, _)
BaseEnd(ts, j) ==
    IF j > Len(ts) THEN 0
    ELSE CASE ts[j].type \in { "num", "var" } -> j
           [] ts[j].type = "unary" -> BaseEnd(ts, j + 1)
           [] ts[j].type = "func" ->
                 IF j < Len(ts) /\ ts[j + 1] = Open THEN MatchClose(ts, j + 2, 1) ELSE 0
           [] ts[j] = Open -> MatchClose(ts, j + 1, 1)
           [] OTHER -> 0
\* seg is a run of consecutive tokens of out
Contains(out, seg) ==
    \E k \in 0..(Len(out) - Len(seg)) : SubSeq(out, k + 1, k + Len(seg)) = seg
\* the number of unary tokens on top of the operator stack
RECURSIVE TopUnary(_)
TopUnary(ops) ==
    IF ops /= << >> /\ Top(ops).type = "unary" THEN 1 + TopUnary(Pop(ops)) ELSE 0
IsBinary(t) == t.type = "op" /\ t.value \in { "+", "-", "*", "/", "^" }
\* toRPN is at a binary operator
AtBinary == pc = "tokenized" /\ sy.pc = "loop" /\ sy.i <= Len(tokens) /\ IsBinary(tokens[sy.i])

(***************************************************************************)
(* C24: when toRPN comes to a binary operator, whatever its precedence,    *)
(* the unary tokens on top of the operator stack are emitted, the topmost  *)
(* first, and then the operator is pushed, so that no unary token lies     *)
(* directly under a binary operator on the stack; hence in the program a   *)
(* sign comes right after the postfix form of the base that follows it in  *)
(* the expression, and applies to that base only.                          *)
(***************************************************************************)
C24_UnaryBeforeBinary ==
    /\ [][AtBinary =>
            /\ Len(sy'.out) >= Len(sy.out) + TopUnary(sy.ops)
            /\ \A q \in 1..TopUnary(sy.ops) :
                  /\ sy'.out[Len(sy.out) + q] = sy.ops[Len(sy.ops) - q + 1]
                  /\ sy'.log[Len(sy.out) + q].by = "reduce"
            /\ Top(sy'.ops) = tokens[sy.i]
            /\ Len(sy'.ops) <= Len(sy.ops) - TopUnary(sy.ops) + 1]_vars
    /\ [](/\ \A p \in 2..Len(sy.ops) : IsBinary(sy.ops[p]) => sy.ops[p - 1].type /= "unary"
          /\ sy.pc = "done" =>
                /\ sy.out = toRPN(tokens).out
                /\ \A u \in 1..Len(tokens) :
                      (tokens[u].type = "unary" /\ BaseEnd(tokens, u + 1) > 0) =>
                         Contains(sy.out,
                                  Append(toRPN(SubSeq(tokens, u + 1, BaseEnd(tokens, u + 1))).out,
                                         tokens[u])))

\* -2^-x^2: the first sign was emitted when the first '^' came, the second
\* when the second came, and the program is 2 neg x neg 2 ^ ^
C24_Witness ==
    /\ sy.pc = "done"
    /\ exprStr = << "-", "2", "^", "-", "x", "^", "2" >>
    /\ SubSeq(sy.out, 1, 7) = << NumTok(Num(2)), Tok("unary", "neg"), Tok("var", "x"),
                                 Tok("unary", "neg"), NumTok(Num(2)), Tok("op", "^"),
                                 Tok("op", "^") >>
    /\ sy.log[2].by = "reduce" /\ sy.log[4].by = "reduce"

(***************************************************************************)
(* C25: every function token of toRPN's output was emitted by the step     *)
(* that processed the ')' matching the '(' that directly follows the       *)
(* function token in the token stream, and by no other step: not by the    *)
(* loop of a binary operator, not by the loop of another ')', not by the   *)
(* flush at the end of the stream.                                         *)
(***************************************************************************)
C25_FuncAtMatchingClose ==
    \A k \in 1..Len(sy.out) :
        sy.out[k].type = "func" =>
            /\ sy.log[k].by = "call"
            /\ sy.log[k].src < Len(tokens)
            /\ tokens[sy.log[k].src + 1] = Open
            /\ MatchClose(tokens, sy.log[k].src + 2, 1) = sy.log[k].at

\* findRoot is at the head of an iteration in which |f1 - f0| < 1e-14
FlatIteration ==
    /\ fr.pc = "loop"
    /\ fr.i < MAX_ITER
    /\ AbsBelow(NumSub(fr.f1, fr.f0), FLAT_EXP) = { TRUE }
\* |a - b| <= 0.05
WithinOffset(a, b) == LeqZero(NumSub(NumAbs(NumSub(a, b)), Rat(1, 20))) = { TRUE }

(***************************************************************************)
(* C26: an iteration of findRoot that begins with |f1 - f0| < 1e-14 moves  *)
(* x1 by at most 0.05, makes f1 the value of f at the new x1 with one      *)
(* evaluation, leaves x0 and f0 as they were and goes on to the next       *)
(* iteration: there is no secant update, and findRoot does not return in   *)
(* it even when the new f1 is below 1e-8.                                  *)
(***************************************************************************)
C26_PerturbationFrame ==
    [][FlatIteration =>
          /\ fr'.pc = "loop"
          /\ fr'.x0 = fr.x0
          /\ fr'.f0 = fr.f0
          /\ WithinOffset(fr'.x1, fr.x1)
          /\ fr'.f1 = Opaque(FAt(fr'.x1))
          /\ fr'.i = fr.i + 1
          /\ fr'.evals = fr.evals + 1
          /\ fr'.tested = fr.tested]_vars

\* (x-0.05)^2 from the guess 0: x1 was moved from 0.1 to 0.05, where f is 0,
\* and findRoot is still in its loop
C26_Witness ==
    /\ fr.pc = "loop"
    /\ fr.walk = 1
    /\ fr.x0 = Num(0)
    /\ fr.x1 = Rat(1, 20)
    /\ IsZero(fr.f1)
    /\ fr.skipped

\* findRoot has thrown its did-not-converge error (line 46)
DidNotConverge == fr.pc = "thrown" /\ fr.error = NOT_CONVERGED
\* f at p is definitely below EPSILON in magnitude
Passes(p) == AbsBelow(FAt(p), EPSILON_EXP) = { TRUE }

(***************************************************************************)
(* C30 as stated: when findRoot throws its did-not-converge error, f was   *)
(* below 1e-8 at none of the points it was evaluated at in that call: not  *)
(* at a seed, not at a secant iterate, not at a perturbed x1.              *)
(***************************************************************************)
C30_AsStated ==
    DidNotConverge => ~fr.skipped /\ \A p \in fr.tested : ~Passes(p)

(***************************************************************************)
(* C30, amended: while findRoot is in its loop, and when it throws its     *)
(* did-not-converge error, f was below 1e-8 at neither seed and at no      *)
(* secant iterate of that call; a seed or secant iterate that passes the   *)
(* test ends the call with a return.                                       *)
(***************************************************************************)
C30_NoTestedPointPassed ==
    (fr.pc = "loop" \/ DidNotConverge) => \A p \in fr.tested : ~Passes(p)

\* a call that threw after secant updates as well as perturbations
C30_Witness ==
    /\ DidNotConverge
    /\ fr.walk > 0
    /\ Cardinality(fr.tested) > 2

\* the calls of g made by the latest step of findRoot(g, guess) whose
\* candidate bound is a finite number
FiniteCalls == { j \in DOMAIN sl.g : IsFiniteNum(sl.g[j].x) }

(***************************************************************************)
(* C27: in solveLimit, for every finite candidate bound x, g(x) integrates *)
(* from knownLimit to x when isUpperUnknown and from x to knownLimit       *)
(* otherwise, with the count n = max(30, min(3000, ceil(|b - a| * 50)));   *)
(* the count integrate uses after padding is a multiple of 3, at least 30  *)
(* and at most 3000. (The count is compared where the model computes the   *)
(* width.)                                                                 *)
(***************************************************************************)
C27_GridOfG ==
    \A j \in FiniteCalls :
       LET c == sl.g[j]
           width == NumAbs(NumSub(c.b, c.a))
       IN  /\ c.a = (IF sl.upper THEN sl.knownLimit ELSE c.x)
           /\ c.b = (IF sl.upper THEN c.x ELSE sl.knownLimit)
           /\ IsFiniteNum(width) => \E m \in 0..(width.n * 50 + 1) :
                 /\ m * width.d >= width.n * 50
                 /\ (m > 0 => (m - 1) * width.d < width.n * 50)
                 /\ c.n = (IF m < 30 THEN 30 ELSE IF m > 3000 THEN 3000 ELSE m)
           /\ c.used % 3 = 0
           /\ c.used >= 30
           /\ c.used <= 3000
           /\ c.used - c.n \in 0..2

\* g at the guess 102 for f = 2, knownLimit = 2, targetArea = 200: the width
\* is 100 and the count is 3000; at 102.1, likewise
C27_Witness ==
    /\ Len(sl.g) = 2
    /\ sl.upper
    /\ sl.g[1].x = Num(102)
    /\ sl.g[1].a = Num(2)
    /\ sl.g[1].n = 3000
    /\ sl.g[1].used = 3000

\* a call of g whose count is padded: the width 1 gives 50, integrate uses 51
C27_Padded ==
    \E j \in FiniteCalls : sl.g[j].n = 50 /\ sl.g[j].used = 51
\* a call of g at NaN
C27_NotFinite == \E j \in DOMAIN sl.g : sl.g[j].x.k = "nan" /\ sl.g[j].used = 0

\* the values the function findRoot was called with (f, or solveLimit's g)
\* can have at p, as findRoot caches them
ValuesAt(p) ==
    IF sl.pc = "idle" THEN { Opaque(FAt(p)) }
    ELSE { Opaque(GCall(sl, p, n, << >>).value) : n \in GridCounts(GWidth(sl, p)) }
\* the test of convergence can come out true at p
CanPass(p) == \E v \in ValuesAt(p) : TRUE \in AbsBelow(v, EPSILON_EXP)
\* the values of f the test of convergence can come out true for at r
RootOfF(r) == TRUE \in AbsBelow(FAt(r), EPSILON_EXP)

(***************************************************************************)
(* C29: a value findRoot returns is a seed or a secant iterate of that     *)
(* call, a point at which it evaluated its function and found it below     *)
(* 1e-8 in magnitude; so is every root findAllRoots collects and every     *)
(* element of the list it returns, and the bound solveLimit returns (for   *)
(* g). At the head of every iteration of findRoot's loop f0 and f1 are the *)
(* values of the function at x0 and x1.                                    *)
(***************************************************************************)
C29_ReturnedPointsPass ==
    /\ fr.pc = "returned" => (fr.value \in fr.tested /\ CanPass(fr.value))
    /\ fr.pc = "loop" => (fr.f0 \in ValuesAt(fr.x0) /\ fr.f1 \in ValuesAt(fr.x1))
    /\ \A j \in DOMAIN fa.roots : RootOfF(fa.roots[j])
    /\ fa.pc = "returned" =>
          \A j \in DOMAIN fa.value :
             /\ RootOfF(fa.value[j])
             /\ \E k \in DOMAIN fa.roots : fa.roots[k] = fa.value[j]
    /\ sl.pc = "returned" =>
          (fr.pc = "returned" /\ sl.value = fr.value /\ CanPass(sl.value))

\* x*x-1 from the guess 0 with range 2: findAllRoots has returned two roots
\* found by secant updates
C29_Witness ==
    /\ fa.pc = "returned"
    /\ Len(fa.value) = 2
    /\ fa.value[1] /= fa.value[2]
    /\ \A j \in DOMAIN fa.value : IsZero(FAt(fa.value[j]))

\* solveLimit has returned the bound 3: the integral of 2 from 2 to 3 is 2
C29_Bound ==
    /\ sl.pc = "returned"
    /\ sl.upper
    /\ sl.value = Num(3)
    /\ ValuesAt(sl.value) = { Num(0) }
\* findRoot on g in its loop
C29_LoopOnG == sl.pc = "searching" /\ fr.pc = "loop" /\ fr.i > 1

\* the coefficients of the polynomial compiled
Coeffs == (CHOOSE p \in Cubics : p.expr = exprStr).c
\* c0 + c1*t + c2*t^2 + c3*t^3
PolyAt(c, t) ==
    NumAdd(Num(c[1]),
           NumMul(t, NumAdd(Num(c[2]),
                            NumMul(t, NumAdd(Num(c[3]), NumMul(t, Num(c[4])))))))
\* the antiderivative c0*t + c1*t^2/2 + c2*t^3/3 + c3*t^4/4
PrimitiveAt(c, t) ==
    NumMul(t, NumAdd(Num(c[1]),
                     NumMul(t, NumAdd(Rat(c[2], 2),
                                      NumMul(t, NumAdd(Rat(c[3], 3),
                                                       NumMul(t, Rat(c[4], 4))))))))
\* the integral of the polynomial from a to b
TrueIntegral(c, a, b) == NumSub(PrimitiveAt(c, b), PrimitiveAt(c, a))
\* u === v for numbers: -0 and 0 are equal
SameNumber(u, v) == u = v \/ (IsZero(u) /\ IsZero(v))

(***************************************************************************)
(* C28: for f a polynomial of degree at most 3, limits a and b in either   *)
(* order or equal, and a count that is a positive multiple of 3 (integrate *)
(* pads any other), the value integrate returns is the integral of f from  *)
(* a to b, c * (b - a) for the constant c; the compiled function is that   *)
(* polynomial at every node. (Compared where the model computes the sum.)  *)
(***************************************************************************)
C28_ExactForCubics ==
    /\ \A j \in DOMAIN ig.xs :
          \/ FAt(ig.xs[j]) = PolyAt(Coeffs, ig.xs[j])
          \/ FAt(ig.xs[j]).k = "sym"
          \/ PolyAt(Coeffs, ig.xs[j]).k = "sym"
    /\ (ig.pc = "done" /\ ig.value.k /= "sym") =>
          /\ ig.n % 3 = 0
          /\ ig.n > 0
          /\ SameNumber(ig.value, TrueIntegral(Coeffs, ig.a, ig.b))
          /\ Coeffs = << 2, 0, 0, 0 >> =>
                SameNumber(ig.value, NumMul(Num(2), NumSub(ig.b, ig.a)))

\* 2x^3 - x^2 + x - 1 from -1 to 3 with 6 subintervals: 92/3
C28_Witness ==
    /\ ig.pc = "done"
    /\ Coeffs = << -1, 1, -1, 2 >>
    /\ ig.a = Num(-1)
    /\ ig.b = Num(3)
    /\ ig.n = 6
    /\ ig.value = Rat(92, 3)

\* limits in descending order: x^3 from 2 to -1 with 6 subintervals, -15/4
C28_Descending ==
    /\ ig.pc = "done"
    /\ Coeffs = << 0, 0, 0, 1 >>
    /\ ig.a = Num(2)
    /\ ig.b = Num(-1)
    /\ ig.n = 6
    /\ ig.value = Rat(-15, 4)
\* values the model did not compute
C28_NotComputed == ig.pc = "done" /\ ig.value.k = "sym"

=========================================================================
